---- MODULE Spec2Model ----
(***************************************************************************)
(* Mastergoal: rules engine, web session loop (app.py, game_manager.py,    *)
(* ai_manager.py), agents and the root-parallel MCTS engine (mcts_AI.py).  *)
(*                                                                         *)
(* Specifications:                                                         *)
(*   Spec       the web session: a human request, then the chained AI      *)
(*              moves                                                      *)
(*   SpecPar    one RootParallelMCTSAI engine: coordinator, worker tasks,  *)
(*              pool threads, history tables, cleanup()                    *)
(*   SpecMerge  _merge_trees applied to the roots worker tasks can return  *)
(* and single calls followed on their own, from arguments drawn from the   *)
(* states the program reaches:                                             *)
(*   SpecClone     clone_game and play on the clone                        *)
(*   SpecBook      get_best_move up to the opening book                    *)
(*   SpecSelect    the final-move strategies                               *)
(*   SpecDecisive  DecisiveMoveStrategy                                    *)
(*   SpecPlayout   RandomPlayout.simulate                                  *)
(*   SpecBackprop  backpropagation of one iteration                        *)
(*   SpecSeed      two seeded runs of the search side by side              *)
(*   SpecStatus    GameManager.check_game_status                           *)
(*   SpecWeb       the handlers new_game and make_move                     *)
(*   SpecHeur      HeuristicAgent.get_move                                 *)
(*   SpecRules     the rules on their own, at the three levels             *)
(*   SpecTile      the web session at level 3, near a special tile         *)
(*   SpecLoop      the loop of RandomPlayout.simulate, with fairness       *)
(*   SpecTree      the tree of one worker, nodes with their states         *)
(*   SpecEnd       the web session one turn from the turn limit            *)
(*   SpecChain     the chained AI moves at level 3, with fairness          *)
(*   SpecSplit     the iteration budgets of the workers and their merge    *)
(*   SpecVisits    the tree of one worker, nodes with their visits         *)
(*   SpecFail      SpecPar on a game in play last possessed by RIGHT       *)
(* The rules engine (mastergoalGame.py, position.py, player.py, ball.py)   *)
(* is not part of the sources at hand; it is modelled from the rules text. *)
(***************************************************************************)
EXTENDS Integers, Sequences, FiniteSets, TLC

VARIABLES
    game,        \* the live MastergoalGame of the session / of the engine
    status,      \* session['status']
    history,     \* session['move_history']
    aiKind,      \* which agent class session['ai_agent'] is
    aiColor,     \* session['ai_color']
    pc,          \* position of the request handler
    chain,       \* chain_limit of the AI loop
    execCall,    \* last call of GameManager.execute_move: args, result, states
    agentCall,   \* last call of AIManager.get_ai_move: result, states
    cpc,         \* position of RootParallelMCTSAI.get_best_move (coordinator)
    team,        \* argument of get_best_move
    cfg,         \* constructor arguments of the engine
    executor,    \* self._active_executor
    wst,         \* state of each submitted worker task (future)
    wthr,        \* pool thread a task runs on
    budget,      \* thread_iterations of each task
    done,        \* completed iterations of each task
    tree,        \* root node built by each task
    results,     \* thread_results
    merged,      \* merged_root
    best,        \* value returned by get_best_move
    hist,        \* history table of each selection-strategy object
    timedOut,    \* as_completed raised TimeoutError in this call
    after,       \* iterations a task completed after the timeout fired
    zombies,     \* tasks of earlier calls that are still running
    calls,       \* number of get_best_move calls started
    cleaned,     \* cleanup() has returned and nothing was started since
    op,          \* the function a call is made to, when one is followed alone
    arg,         \* its arguments
    ret          \* what it returned and what it left behind

gvars == <<game>>
fvars == <<op, arg, ret>>
wvars == <<status, history, aiKind, aiColor, pc, chain, execCall, agentCall>>
evars == <<cpc, team, cfg, executor, wst, wthr, budget, done, tree, results,
           merged, best, hist, timedOut, after, zombies, calls, cleaned>>
svars == <<wvars, fvars>>
pvars == <<evars, fvars>>
vars == <<game, status, history, aiKind, aiColor, pc, chain, execCall,
          agentCall, cpc, team, cfg, executor, wst, wthr, budget, done, tree,
          results, merged, best, hist, timedOut, after, zombies,
          calls, cleaned, op, arg, ret>>

None == "None"

\* a move that is Python's None, and a call that ended in an exception
NoMove == <<>>

Raised == <<"raise">>

(***************************************************************************)
(* Bounds of the model.                                                    *)
(***************************************************************************)
\* the model stops issuing requests once turn_count reaches this
MaxTurns == 4
\* number of worker tasks of the engine (num_threads)
MaxThreads == 2
\* largest iteration budget of the engine
MaxIter == 2
\* get_best_move calls per engine
MaxCalls == 2

(***************************************************************************)
(* Board primitives.                                                       *)
(***************************************************************************)
ROWS == 15
COLS == 11

Pos == (0 .. ROWS - 1) \X (0 .. COLS - 1)

Abs(x) == IF x < 0 THEN -x ELSE x

Max2(a, b) == IF a >= b THEN a ELSE b

Min2(a, b) == IF a <= b THEN a ELSE b

Sgn(x) == IF x > 0 THEN 1 ELSE IF x < 0 THEN -1 ELSE 0

\* Chebyshev distance
distance(p, q) == Max2(Abs(p[1] - q[1]), Abs(p[2] - q[2]))

is_adjacent(p, q) == p # q /\ distance(p, q) <= 1

Teams == {"LEFT", "RIGHT"}

Opp(t) == IF t = "LEFT" THEN "RIGHT" ELSE "LEFT"

\* the goal LEFT attacks (RIGHT's goal) and the goal RIGHT attacks
is_goal_RIGHT(p) == p[1] = ROWS - 1 /\ p[2] \in 3 .. 7

is_goal_LEFT(p) == p[1] = 0 /\ p[2] \in 3 .. 7

ScoresFor(t, p) == IF t = "LEFT" THEN is_goal_RIGHT(p) ELSE is_goal_LEFT(p)

(***************************************************************************)
(* Game state.                                                             *)
(***************************************************************************)
\* level 1: one field player a side; level 2: two; level 3: four and a
\* goalkeeper.  The forwards stand on the cells the opening book names.
Piece(t, i, p, k) == [team |-> t, id |-> i, pos |-> p, gk |-> k]

Roster(level) ==
    IF level = 1
    THEN <<Piece("LEFT", 1, <<4, 5>>, FALSE), Piece("RIGHT", 1, <<10, 5>>, FALSE)>>
    ELSE IF level = 2
    THEN <<Piece("LEFT", 1, <<4, 5>>, FALSE), Piece("LEFT", 2, <<2, 5>>, FALSE),
           Piece("RIGHT", 1, <<10, 5>>, FALSE), Piece("RIGHT", 2, <<12, 5>>, FALSE)>>
    ELSE <<Piece("LEFT", 1, <<4, 3>>, FALSE), Piece("LEFT", 2, <<4, 7>>, FALSE),
           Piece("LEFT", 3, <<2, 2>>, FALSE), Piece("LEFT", 4, <<2, 8>>, FALSE),
           Piece("LEFT", 5, <<1, 5>>, TRUE),
           Piece("RIGHT", 1, <<10, 3>>, FALSE), Piece("RIGHT", 2, <<10, 7>>, FALSE),
           Piece("RIGHT", 3, <<12, 2>>, FALSE), Piece("RIGHT", 4, <<12, 8>>, FALSE),
           Piece("RIGHT", 5, <<13, 5>>, TRUE)>>

CentreCell == <<7, 5>>

MastergoalGame(level) ==
    [level |-> level, LEFT_goals |-> 0, RIGHT_goals |-> 0,
     current_team |-> "LEFT", last_possession_team |-> "LEFT",
     passes_count |-> 0, turn_count |-> 0, skip_next_turn |-> FALSE,
     ball |-> CentreCell, players |-> Roster(level)]

PlayersAt(g, p) == {i \in DOMAIN g.players : g.players[i].pos = p}

Occupied(g, p) == PlayersAt(g, p) # {}

get_team_players(g, t) == {i \in DOMAIN g.players : g.players[i].team = t}

is_ball_in_neutral_state(g) == ~Occupied(g, g.ball)

Carrier(g) == CHOOSE i \in PlayersAt(g, g.ball) : TRUE

Owns(g, t) == ~is_ball_in_neutral_state(g) /\ g.players[Carrier(g)].team = t

PassCap(level) == level

\* special tiles exist at level 3 only; their cells are a setting of the
\* level: the corners of the field at the end the team attacks
SpecialTiles(t) ==
    IF t = "LEFT" THEN {<<ROWS - 2, 0>>, <<ROWS - 2, COLS - 1>>}
    ELSE {<<1, 0>>, <<1, COLS - 1>>}

is_special_tile(g, p, t) == g.level = 3 /\ p \in SpecialTiles(t)

\* the penalty area of a team: the rectangle in front of its goal, the goal
\* cells included
PenaltyArea(t) ==
    IF t = "LEFT" THEN (0 .. 4) \X (1 .. COLS - 2)
    ELSE (ROWS - 5 .. ROWS - 1) \X (1 .. COLS - 2)

(***************************************************************************)
(* Legal-move generator.                                                   *)
(***************************************************************************)
\* the cells of the board within Chebyshev distance d of p
Near(p, d) ==
    (Max2(0, p[1] - d) .. Min2(ROWS - 1, p[1] + d))
        \X (Max2(0, p[2] - d) .. Min2(COLS - 1, p[2] + d))

\* the cell half way of a two-step move along a row, column or diagonal
HasMid(f, t) == (t[1] - f[1]) % 2 = 0 /\ (t[2] - f[2]) % 2 = 0

Mid(f, t) == <<(f[1] + t[1]) \div 2, (f[2] + t[2]) \div 2>>

MoveTargets(g, i) ==
    LET f == g.players[i].pos
    IN IF g.players[i].gk
       THEN {t \in Near(f, 1) \cap PenaltyArea(g.players[i].team) :
               t # f /\ ~Occupied(g, t)}
       ELSE {t \in Near(f, 2) :
               /\ t # f
               /\ distance(f, t) <= 2
               /\ ~Occupied(g, t)
               /\ (distance(f, t) = 2 /\ HasMid(f, t)) => ~Occupied(g, Mid(f, t))}

OnRay(f, t) ==
    \/ f[1] = t[1]
    \/ f[2] = t[2]
    \/ Abs(f[1] - t[1]) = Abs(f[2] - t[2])

RayCell(f, t, k) == <<f[1] + k * Sgn(t[1] - f[1]), f[2] + k * Sgn(t[2] - f[2])>>

RayClear(g, f, t) == \A k \in 1 .. distance(f, t) - 1 : ~Occupied(g, RayCell(f, t, k))

IsPass(g, t) == \E i \in PlayersAt(g, t) : g.players[i].team = g.current_team

KickTargets(g) ==
    IF ~Owns(g, g.current_team) THEN {}
    ELSE {t \in Near(g.ball, 4) :
            /\ t # g.ball
            /\ distance(g.ball, t) <= 4
            /\ OnRay(g.ball, t)
            /\ RayClear(g, g.ball, t)
            /\ IsPass(g, t) => g.passes_count + 1 <= PassCap(g.level)}

get_legal_moves(g) ==
    UNION {{<<"move", g.players[i].pos, t>> : t \in MoveTargets(g, i)} :
                  i \in get_team_players(g, g.current_team)}
    \cup {<<"kick", g.ball, t>> : t \in KickTargets(g)}

(***************************************************************************)
(* Move executor.                                                          *)
(***************************************************************************)
\* the side to move after a non-scoring turn of the current side
\* the turn passes and is not counted
end_turn_keeps_count(g) ==
    IF g.skip_next_turn
    THEN [g EXCEPT !.skip_next_turn = FALSE]
    ELSE [g EXCEPT !.current_team = Opp(@)]

end_turn(g) ==
    IF g.skip_next_turn
    THEN [g EXCEPT !.skip_next_turn = FALSE, !.turn_count = @ + 1]
    ELSE [g EXCEPT !.current_team = Opp(@), !.turn_count = @ + 1]

MovePlayer(g, f, t) ==
    LET i == CHOOSE j \in PlayersAt(g, f) : TRUE
    IN [g EXCEPT !.players[i].pos = t]

\* a move that leaves passes_count as it is
execute_move_keeps_passes(g, f, t) ==
    LET g1 == MovePlayer(g, f, t)
        g2 == [g1 EXCEPT !.last_possession_team =
                             IF t = g.ball THEN g.current_team ELSE @]
    IN end_turn(g2)

execute_move(g, f, t) ==
    LET g1 == MovePlayer(g, f, t)
        g2 == [g1 EXCEPT !.passes_count = 0,
                         !.last_possession_team =
                             IF t = g.ball THEN g.current_team ELSE @]
    IN end_turn(g2)

\* a goal after which the scoring side moves
ResetAfterGoal_scorer_moves(g, scorer) ==
    [MastergoalGame(g.level) EXCEPT
        !.LEFT_goals = g.LEFT_goals + (IF scorer = "LEFT" THEN 1 ELSE 0),
        !.RIGHT_goals = g.RIGHT_goals + (IF scorer = "RIGHT" THEN 1 ELSE 0),
        !.current_team = scorer,
        !.last_possession_team = g.last_possession_team,
        !.turn_count = g.turn_count + 1]

\* a goal: count it, put every piece back, the conceding side moves
ResetAfterGoal(g, scorer) ==
    [MastergoalGame(g.level) EXCEPT
        !.LEFT_goals = g.LEFT_goals + (IF scorer = "LEFT" THEN 1 ELSE 0),
        !.RIGHT_goals = g.RIGHT_goals + (IF scorer = "RIGHT" THEN 1 ELSE 0),
        !.current_team = Opp(scorer),
        !.last_possession_team = g.last_possession_team,
        !.turn_count = g.turn_count + 1]

GoalkeeperAt(g, p) == \E i \in PlayersAt(g, p) : g.players[i].gk

\* a kick that passes the turn from a special tile as from any other cell
execute_kick_tile_ignored(g, t) ==
    LET me == g.current_team
        g1 == [g EXCEPT !.ball = t]
    IN IF ScoresFor(me, t) /\ ~GoalkeeperAt(g, t)
       THEN ResetAfterGoal(g, me)
       ELSE end_turn(IF IsPass(g, t)
                     THEN [g1 EXCEPT !.passes_count = @ + 1]
                     ELSE IF Occupied(g, t)
                     THEN [g1 EXCEPT !.passes_count = 0,
                                     !.last_possession_team = Opp(me)]
                     ELSE [g1 EXCEPT !.passes_count = 0,
                                     !.last_possession_team = me])

\* a pass counted twice
execute_kick_pass_counted_twice(g, t) ==
    LET me == g.current_team
        g1 == [g EXCEPT !.ball = t]
    IN IF ScoresFor(me, t) /\ ~GoalkeeperAt(g, t)
       THEN ResetAfterGoal(g, me)
       ELSE LET g2 ==
                  IF IsPass(g, t)
                  THEN [g1 EXCEPT !.passes_count = @ + 2]
                  ELSE IF Occupied(g, t)
                  THEN [g1 EXCEPT !.passes_count = 0,
                                  !.last_possession_team = Opp(me)]
                  ELSE [g1 EXCEPT !.passes_count = 0,
                                  !.last_possession_team = me]
            IN IF is_special_tile(g, t, me)
               THEN [g2 EXCEPT !.turn_count = @ + 1]
               ELSE end_turn(g2)

execute_kick(g, t) ==
    LET me == g.current_team
        g1 == [g EXCEPT !.ball = t]
    IN IF ScoresFor(me, t) /\ ~GoalkeeperAt(g, t)
       THEN ResetAfterGoal(g, me)
       ELSE LET g2 ==
                  IF IsPass(g, t)
                  THEN [g1 EXCEPT !.passes_count = @ + 1]
                  ELSE IF Occupied(g, t)
                  THEN [g1 EXCEPT !.passes_count = 0,
                                  !.last_possession_team = Opp(me)]
                  ELSE [g1 EXCEPT !.passes_count = 0,
                                  !.last_possession_team = me]
            IN IF is_special_tile(g, t, me)
               THEN [g2 EXCEPT !.turn_count = @ + 1]
               ELSE end_turn(g2)

Execute(g, m) == IF m[1] = "move" THEN execute_move(g, m[2], m[3])
                 ELSE execute_kick(g, m[3])

WinGoals == 2

get_winner(g) ==
    IF g.LEFT_goals >= WinGoals THEN "LEFT"
    ELSE IF g.RIGHT_goals >= WinGoals THEN "RIGHT"
    ELSE None

(***************************************************************************)
(* Snapshot and restore (get_game_state / restore_game_state).             *)
(***************************************************************************)
\* the record returned by game.get_game_state(): it carries no
\* last_possession_team
get_game_state(g) ==
    [level |-> g.level, current_team |-> g.current_team,
     LEFT_goals |-> g.LEFT_goals, RIGHT_goals |-> g.RIGHT_goals,
     ball_position |-> g.ball,
     players |-> [i \in DOMAIN g.players |->
                    <<g.players[i].team, g.players[i].id, g.players[i].pos[1],
                      g.players[i].pos[2], g.players[i].gk>>],
     passes_count |-> g.passes_count, turn_count |-> g.turn_count,
     skip_next_turn |-> g.skip_next_turn]

restore_game_state(g, st) ==
    [level |-> st.level, LEFT_goals |-> st.LEFT_goals,
     RIGHT_goals |-> st.RIGHT_goals, current_team |-> st.current_team,
     last_possession_team |->
         IF "last_possession_team" \in DOMAIN st
         THEN st["last_possession_team"] ELSE "LEFT",
     passes_count |-> st.passes_count, turn_count |-> st.turn_count,
     skip_next_turn |-> st.skip_next_turn,
     ball |-> st.ball_position,
     players |-> [i \in DOMAIN st.players |->
                    [team |-> st.players[i][1], id |-> st.players[i][2],
                     pos |-> <<st.players[i][3], st.players[i][4]>>,
                     gk |-> st.players[i][5]]]]

clone_game(g) ==
    [level |-> g.level, LEFT_goals |-> g.LEFT_goals,
     RIGHT_goals |-> g.RIGHT_goals, current_team |-> g.current_team,
     last_possession_team |-> g.last_possession_team,
     passes_count |-> g.passes_count, turn_count |-> g.turn_count,
     skip_next_turn |-> g.skip_next_turn, ball |-> g.ball,
     players |-> [i \in DOMAIN g.players |->
                    [team |-> g.players[i].team, id |-> g.players[i].id,
                     pos |-> g.players[i].pos, gk |-> g.players[i].gk]]]

(***************************************************************************)
(* Explored choices: a random draw (random.choice) and a request of the    *)
(* client range over the candidates inside the centre column, when there   *)
(* is one.                                                                 *)
(***************************************************************************)
InCorridor(p) == p[2] = CentreCell[2]

Explore(S) ==
    LET C == {m \in S : InCorridor(m[2]) /\ InCorridor(m[3])}
    IN IF C # {} THEN C ELSE S

(***************************************************************************)
(* Agents.  Each operator gives the set of results a call may have:        *)
(* [ret |-> a move, NoMove or Raised, game |-> the passed state afterwards].  *)
(***************************************************************************)
\* the kicks among S that land on a special tile of the side to move
TileKicks(g, S) ==
    {m \in S : m[1] = "kick" /\ is_special_tile(g, m[3], g.current_team)}

\* random.choice over the legal moves: the explored candidates and the kicks
\* onto a special tile
RandomAgent_get_move(g) ==
    IF get_legal_moves(g) = {}
    THEN {[ret |-> Raised, game |-> g]}
    ELSE {[ret |-> m, game |-> g] :
            m \in Explore(get_legal_moves(g)) \cup TileKicks(g, get_legal_moves(g))}

\* HeuristicAgent: the rule battery of _select_heuristic_move
find_goal_moves(g, tm, kicks) == {m \in kicks : ScoresFor(tm, m[3])}

find_advancing_kicks(g, tm, kicks) ==
    {m \in kicks : IF tm = "LEFT" THEN m[3][1] > g.ball[1]
                   ELSE m[3][1] < g.ball[1]}

find_good_passes(g, tm, kicks) ==
    LET goalRow == IF tm = "LEFT" THEN 14 ELSE 0
    IN {m \in kicks :
          \E i \in get_team_players(g, tm) :
             /\ is_adjacent(g.players[i].pos, m[3])
             /\ Abs(g.players[i].pos[1] - goalRow) < 7}

find_ball_approaching_moves(g, moves) ==
    {m \in moves : distance(m[3], g.ball) < distance(m[2], g.ball)}

find_defensive_moves(g, tm, moves) ==
    {m \in moves :
        IF tm = "LEFT"
        THEN g.ball[1] < 7 /\ m[3][1] < g.ball[1] /\ m[3][1] > 0
        ELSE g.ball[1] > 7 /\ m[3][1] > g.ball[1] /\ m[3][1] < 14}

select_heuristic_move(g, tm, level, moves) ==
    LET kicks == {m \in moves : m[1] = "kick"}
        pmoves == {m \in moves : m[1] = "move"}
    IN IF find_goal_moves(g, tm, kicks) # {}
       THEN find_goal_moves(g, tm, kicks)
       ELSE IF find_advancing_kicks(g, tm, kicks) # {}
       THEN find_advancing_kicks(g, tm, kicks)
       ELSE IF level >= 2 /\ find_good_passes(g, tm, kicks) # {}
       THEN find_good_passes(g, tm, kicks)
       ELSE IF find_ball_approaching_moves(g, pmoves) # {}
       THEN find_ball_approaching_moves(g, pmoves)
       ELSE IF find_defensive_moves(g, tm, pmoves) # {}
       THEN find_defensive_moves(g, tm, pmoves)
       ELSE moves

HeuristicAgent_get_move(g, tm) ==
    IF get_legal_moves(g) = {}
    THEN {[ret |-> Raised, game |-> g]}
    ELSE {[ret |-> m, game |-> g] :
            m \in Explore(select_heuristic_move(g, tm, g.level, get_legal_moves(g)))}

\* the opening book of the MCTS engines
is_first_turn(g) == g.turn_count = 0

\* a book that knows the level-3 openers only
opening_book_move_level3_only(g, level) ==
    LET valid == {<<"move", <<4, 3>>, <<6, 5>>>>,
                  <<"move", <<4, 7>>, <<6, 5>>>>} \cap get_legal_moves(g)
    IN IF valid # {} THEN valid ELSE {NoMove}

opening_book_move(g, level) ==
    IF level \in {1, 2}
    THEN IF <<"move", <<4, 5>>, <<6, 5>>>> \in get_legal_moves(g)
         THEN {<<"move", <<4, 5>>, <<6, 5>>>>} ELSE {NoMove}
    ELSE IF level = 3
    THEN LET valid == {<<"move", <<4, 3>>, <<6, 5>>>>,
                       <<"move", <<4, 7>>, <<6, 5>>>>} \cap get_legal_moves(g)
         IN IF valid # {} THEN valid ELSE {NoMove}
    ELSE {NoMove}

\* RootParallelMCTSAI.get_best_move seen from its caller: the results one
\* call may have.  SpecPar below steps through the same method.
MCTS_get_best_move(g, tm, c) ==
    IF g.current_team # tm
    THEN {[ret |-> NoMove, game |-> g]}
    ELSE IF c.use_opening_book /\ is_first_turn(g) /\ tm = "LEFT"
    THEN LET g1 == [g EXCEPT !.turn_count = @ + 1]
         IN {[ret |-> m, game |-> g1] : m \in opening_book_move(g1, c.level)}
    ELSE LET g2 == restore_game_state(g, get_game_state(g))
             kids == IF get_winner(g) = None /\ c.iterations >= 1
                     THEN Explore(get_legal_moves(g)) ELSE {}
         IN \* the pool could not be started: the exception leaves the method
            {[ret |-> Raised, game |-> g]}
            \* every worker failed, or no worker expanded the root
            \cup {[ret |-> NoMove, game |-> g2]}
            \cup {[ret |-> m, game |-> g2] : m \in kids}

MCTSStandardAgent_get_move(g, tm, c) ==
    UNION {IF o.ret # Raised THEN {o}
           ELSE IF get_legal_moves(o.game) # {}
           THEN {[ret |-> m, game |-> o.game] : m \in Explore(get_legal_moves(o.game))}
           ELSE {[ret |-> Raised, game |-> o.game]} :
           o \in MCTS_get_best_move(g, tm, c)}

AgentKinds == {"random", "heuristic", "mcts"}

\* AIManager.get_agent: the MCTS agent of the web application
WebMCTSConfig(level) ==
    [level |-> level, use_opening_book |-> TRUE, iterations |-> 100,
     num_threads |-> 1]

Agent_get_move(kind, g, tm) ==
    IF kind = "random" THEN RandomAgent_get_move(g)
    ELSE IF kind = "heuristic" THEN HeuristicAgent_get_move(g, tm)
    ELSE MCTSStandardAgent_get_move(g, tm, WebMCTSConfig(g.level))

\* AIManager.get_ai_move: [agent |-> what the agent answered,
\*                         move |-> what the caller gets, game |-> state after]
get_ai_move(kind, g, tm) ==
    UNION {IF o.ret # Raised
           THEN {[agent |-> o.ret, move |-> o.ret, game |-> o.game]}
           ELSE IF get_legal_moves(o.game) # {}
           THEN {[agent |-> o.ret, move |-> m, game |-> o.game] :
                   m \in Explore(get_legal_moves(o.game))}
           ELSE {[agent |-> o.ret, move |-> NoMove, game |-> o.game]} :
           o \in Agent_get_move(kind, g, tm)}

(***************************************************************************)
(* GameManager.                                                            *)
(***************************************************************************)
\* a request: shape "ok", "missing" (a field is absent or empty) or
\* "malformed" (a position without row / col)
Req(ty, f, t) == [shape |-> "ok", type |-> ty, from |-> f, to |-> t]

\* execute_move with the membership test comparing kind and origin only
GM_execute_move_no_dest(g, req) ==
    IF req.shape = "malformed"
    THEN [ok |-> FALSE, game |-> g]
    ELSE IF ~\E m \in get_legal_moves(g) : m[1] = req.type /\ m[2] = req.from
    THEN [ok |-> FALSE, game |-> g]
    ELSE IF req.type = "move"
    THEN [ok |-> TRUE, game |-> execute_move(g, req.from, req.to)]
    ELSE [ok |-> TRUE, game |-> execute_kick(g, req.to)]

GM_execute_move(g, req) ==
    IF req.shape = "malformed"
    THEN [ok |-> FALSE, game |-> g]
    ELSE IF <<req.type, req.from, req.to>> \notin get_legal_moves(g)
    THEN [ok |-> FALSE, game |-> g]
    ELSE IF req.type = "move"
    THEN [ok |-> TRUE, game |-> execute_move(g, req.from, req.to)]
    ELSE [ok |-> TRUE, game |-> execute_kick(g, req.to)]

\* game.is_game_over(): 1, -1 or nothing
is_game_over(g) ==
    IF g.LEFT_goals >= WinGoals THEN "1"
    ELSE IF g.RIGHT_goals >= WinGoals THEN "-1"
    ELSE None

\* an optional argument is a set of at most one value
check_game_status(g, win_goals, max_turns_enabled, max_turns) ==
    IF \E w \in win_goals : g.LEFT_goals >= w
    THEN [ended |-> TRUE, winner |-> "LEFT"]
    ELSE IF \E w \in win_goals : g.RIGHT_goals >= w
    THEN [ended |-> TRUE, winner |-> "RIGHT"]
    ELSE IF max_turns_enabled /\ \E n \in max_turns : g.turn_count >= n
    THEN [ended |-> TRUE, winner |-> "DRAW"]
    ELSE IF is_game_over(g) = "1" THEN [ended |-> TRUE, winner |-> "LEFT"]
    ELSE IF is_game_over(g) = "-1" THEN [ended |-> TRUE, winner |-> "RIGHT"]
    ELSE IF is_game_over(g) = "0.1" THEN [ended |-> TRUE, winner |-> "DRAW"]
    ELSE [ended |-> FALSE, winner |-> None]

(***************************************************************************)
(* The web session (app.py), player against AI.                            *)
(***************************************************************************)
\* session['win_goals'], session['max_turns_enabled'], session['max_turns']
SessionStatus(g) == check_game_status(g, {WinGoals}, FALSE, {})

playerColor == Opp(aiColor)

\* requests the model sends: the explored legal moves, and probes that are
\* mostly illegal (a step beyond the reach of the kind, the other side's
\* piece, a kick without the ball), and the two ill-formed requests
Shift(p, d) == <<p[1] + d, p[2]>>

Probes(g) ==
    {Req("move", g.players[i].pos, Shift(g.players[i].pos, d)) :
        i \in DOMAIN g.players, d \in {1, 3}}
    \cup {Req("kick", g.ball, Shift(g.ball, d)) : d \in {1, 5}}
    \cup {[shape |-> "missing", type |-> "move", from |-> g.ball, to |-> g.ball],
          [shape |-> "malformed", type |-> "move", from |-> g.ball, to |-> g.ball]}

Requests(g) ==
    {Req(m[1], m[2], m[3]) : m \in Explore(get_legal_moves(g))} \cup Probes(g)

\* what is remembered of a call of GameManager.execute_move
CallRecord(g, req, r) ==
    [legal |-> req.shape = "ok"
                 /\ <<req.type, req.from, req.to>> \in get_legal_moves(g),
     pre |-> g, ok |-> r.ok, post |-> r.game]

Payload(who, m) == [player |-> who, move |-> m]

\* no single function call is being followed
FunIdle == op = "none" /\ arg = <<>> /\ ret = <<>>

EngineIdle ==
    /\ cpc = "idle" /\ team = "LEFT"
    /\ cfg = [level |-> 1, use_opening_book |-> TRUE, iterations |-> 0,
              num_threads |-> 1, selection |-> "uct_class"]
    /\ executor = None
    /\ wst = <<>> /\ wthr = <<>> /\ budget = <<>> /\ done = <<>> /\ tree = <<>>
    /\ results = <<>> /\ merged = <<>> /\ best = NoMove
    /\ hist = <<>> /\ timedOut = FALSE /\ after = <<>>
    /\ zombies = <<>> /\ calls = 0 /\ cleaned = FALSE

Init ==
    /\ game = MastergoalGame(1)
    /\ status = "active"
    /\ history = <<>>
    /\ aiKind \in AgentKinds
    /\ aiColor \in Teams
    /\ pc = "idle" /\ chain = 0
    /\ execCall = <<>> /\ agentCall = <<>>
    /\ EngineIdle
    /\ FunIdle

\* POST /api/game/<id>/move, up to the AI loop
MakeMove(req) ==
    /\ pc = "idle"
    /\ game.turn_count < MaxTurns
    /\ UNCHANGED <<aiKind, aiColor, agentCall>>
    /\ UNCHANGED pvars
    /\ IF \/ status # "active"
          \/ req.shape = "missing"
          \/ game.current_team # playerColor
       THEN UNCHANGED <<game, status, history, pc, chain, execCall>>
       ELSE LET r == GM_execute_move(game, req)
                extra == /\ req.type = "kick" /\ game.level >= 3
                         /\ is_special_tile(r.game, req.to, game.current_team)
                goal == \/ r.game.LEFT_goals > game.LEFT_goals
                        \/ r.game.RIGHT_goals > game.RIGHT_goals
            IN /\ execCall' = <<CallRecord(game, req, r)>>
               /\ game' = r.game
               /\ IF ~r.ok
                  THEN UNCHANGED <<status, history, pc, chain>>
                  ELSE /\ history' = Append(history,
                              Payload(playerColor, <<req.type, req.from, req.to>>))
                       /\ IF SessionStatus(r.game).ended
                          THEN status' = "completed" /\ UNCHANGED <<pc, chain>>
                          ELSE IF goal
                          THEN UNCHANGED <<status, pc, chain>>
                          ELSE IF r.game.current_team = aiColor /\ ~extra
                          THEN pc' = "ai" /\ chain' = 10 /\ UNCHANGED status
                          ELSE UNCHANGED <<status, pc, chain>>

\* GET /api/game/<id>/state, up to the AI loop
GetState ==
    /\ pc = "idle"
    /\ game.turn_count < MaxTurns
    /\ UNCHANGED <<game, status, history, aiKind, aiColor, execCall, agentCall>>
    /\ UNCHANGED pvars
    /\ IF game.current_team = aiColor
       THEN pc' = "ai" /\ chain' = 10
       ELSE UNCHANGED <<pc, chain>>

\* a loop that does not count its rounds
ChainAfter_kept(c) == c

\* chain_limit -= 1
ChainAfter(c) == c - 1

\* one round of the AI loop of either handler, or its exit
AIStep ==
    /\ pc = "ai"
    /\ UNCHANGED <<aiKind, aiColor>>
    /\ UNCHANGED pvars
    /\ IF ~(game.current_team = aiColor /\ chain > 0)
       THEN /\ pc' = "idle"
            /\ UNCHANGED <<game, status, history, chain, execCall, agentCall>>
       ELSE \E a \in get_ai_move(aiKind, game, aiColor) :
              /\ chain' = ChainAfter(chain)
              /\ agentCall' = <<[pre |-> game, agent |-> a.agent,
                                 move |-> a.move, post |-> a.game]>>
              /\ IF a.move = NoMove
                 THEN /\ game' = a.game
                      /\ pc' = "idle"
                      /\ UNCHANGED <<status, history, execCall>>
                 ELSE LET req == Req(a.move[1], a.move[2], a.move[3])
                          r == GM_execute_move(a.game, req)
                      IN /\ execCall' = <<CallRecord(a.game, req, r)>>
                         /\ game' = r.game
                         /\ IF ~r.ok
                            THEN pc' = "idle" /\ UNCHANGED <<status, history>>
                            ELSE /\ history' = Append(history, Payload(aiColor, a.move))
                                 /\ IF SessionStatus(r.game).ended
                                    THEN status' = "completed" /\ pc' = "idle"
                                    ELSE UNCHANGED <<status, pc>>

Next ==
    \/ \E req \in Requests(game) : MakeMove(req)
    \/ GetState
    \/ AIStep

Spec == Init /\ [][Next]_vars

(***************************************************************************)
(* The root-parallel engine (RootParallelMCTSAI).                          *)
(***************************************************************************)
\* calculate_reward at the end of a playout: 1.0 for a win of AI_team, -1.0
\* for a win of the other team.  The playout loop leaves only with a winner
\* or without a legal move, and a level-1 position always has a legal move.
Rewards == {1, -1}

\* the draws of random.choice the engine model follows: single steps along
\* the centre column while there are any
Sample(S) ==
    LET C == {m \in Explore(S) : is_adjacent(m[2], m[3])}
    IN IF C # {} THEN C ELSE Explore(S)

Node(m) == [move |-> m, visits |-> 0, total_reward |-> 0, children |-> <<>>]

MCTSNode == [visits |-> 0, total_reward |-> 0, children |-> <<>>]

ChildMoves(n) == {n.children[i].move : i \in DOMAIN n.children}

is_fully_expanded(n, g) == Len(n.children) = Cardinality(get_legal_moves(g))

\* StandardBackpropagation.backpropagate on the chain child -> root
Backprop(n, r) == [n EXCEPT !.visits = @ + 1, !.total_reward = @ + r]

\* RandomExpansion.expand followed by the backpropagation from the new child
Expand(root, m, r) ==
    Backprop([root EXCEPT !.children = Append(@, Backprop(Node(m), r))], r)

\* the same one level down, below child i of the root
ExpandBelow(root, i, m, r) ==
    Backprop([root EXCEPT !.children[i] = Expand(@, m, r)], r)

\* the tasks of a call
Tasks == DOMAIN wst

\* a split that drops the remainder
ThreadIterations_floor(n, t, w) == n \div t

\* thread_iterations of task w for budget n on t threads
ThreadIterations(n, t, w) == (n \div t) + (IF w - 1 < n % t THEN 1 ELSE 0)

UsesHistory == cfg.selection \in {"ph_class", "ph_instance"}

\* the selection-strategy object task w works with: the one instance given
\* to the constructor, or the object stored in the thread-local of its thread
StrategyOf(w) == IF cfg.selection = "ph_instance" THEN 0 ELSE wthr[w]

\* ProgressiveHistorySelection.update_history for key k by task id
UpdateHistory(tab, k, r, id) ==
    IF k \in DOMAIN tab
    THEN [tab EXCEPT ![k] = [total |-> @.total + r, count |-> @.count + 1,
                             by |-> @.by \cup {id}]]
    ELSE (k :> [total |-> r, count |-> 1, by |-> {id}]) @@ tab

EmptyTable == <<>>

\* the key update_history uses for the child reached by move m
HistoryKey(g, m) == <<Execute(g, m).current_team, m>>

\* _merge_trees: fold the roots, children keyed by move in order of first
\* appearance
IndexOfMove(kids, m) == CHOOSE i \in DOMAIN kids : kids[i].move = m

RECURSIVE MergeChildren(_, _)
MergeChildren(kids, cs) ==
    IF cs = <<>> THEN kids
    ELSE LET c == Head(cs)
             kids1 == IF \E i \in DOMAIN kids : kids[i].move = c.move
                      THEN kids ELSE Append(kids, Node(c.move))
             j == IndexOfMove(kids1, c.move)
         IN MergeChildren(
              [kids1 EXCEPT ![j].visits = @ + c.visits,
                            ![j].total_reward = @ + c.total_reward],
              Tail(cs))

RECURSIVE MergeRoots(_, _)
MergeRoots(m, roots) ==
    IF roots = <<>> THEN m
    ELSE LET r == Head(roots)
         IN MergeRoots([visits |-> m.visits + r.visits,
                        total_reward |-> m.total_reward + r.total_reward,
                        children |-> MergeChildren(m.children, r.children)],
                       Tail(roots))

\* a merge that takes the first tree only
merge_trees_first_only(root_nodes) ==
    IF root_nodes = <<>> THEN <<>>
    ELSE <<MergeRoots(MCTSNode, <<Head(root_nodes)>>)>>

\* the merged root, or nothing (<<>>) when there is no tree
merge_trees(root_nodes) ==
    IF root_nodes = <<>> THEN <<>> ELSE <<MergeRoots(MCTSNode, root_nodes)>>

\* RobustChildStrategy.select_move: the first child with the most visits
RobustChild(n) ==
    LET i == CHOOSE j \in DOMAIN n.children :
                 /\ \A k \in DOMAIN n.children : n.children[k].visits <= n.children[j].visits
                 /\ \A k \in 1 .. j - 1 : n.children[k].visits < n.children[j].visits
    IN n.children[i].move

\* the state the engine is given first
StartGames == {MastergoalGame(1)}

SessionIdle ==
    /\ status = "active" /\ history = <<>>
    /\ aiKind = "mcts" /\ aiColor = "LEFT"
    /\ pc = "idle" /\ chain = 0
    /\ execCall = <<>> /\ agentCall = <<>>

InitPar ==
    /\ game \in StartGames
    /\ team \in Teams
    /\ cfg \in [level : {1}, use_opening_book : BOOLEAN,
                iterations : 0 .. MaxIter, num_threads : 1 .. MaxThreads,
                selection : {"uct_class", "ph_class", "ph_instance"}]
    /\ cpc = "idle"
    /\ executor = None
    /\ wst = <<>> /\ wthr = <<>> /\ budget = <<>> /\ done = <<>> /\ tree = <<>>
    /\ results = <<>> /\ merged = <<>> /\ best = NoMove
    /\ hist = [o \in 0 .. MaxThreads |-> EmptyTable]
    /\ timedOut = FALSE /\ after = <<>>
    /\ zombies = <<>> /\ calls = 0 /\ cleaned = FALSE
    /\ SessionIdle
    /\ FunIdle

\* variables a call of get_best_move leaves alone while the worker tasks run
cvars == <<cpc, team, cfg, executor, results, merged, best, timedOut, calls,
           cleaned, zombies>>

Running == {w \in Tasks : wst[w] = "running"}

\* the task identity recorded with a history entry
TaskId(w) == <<calls, w>>

\* pool threads a queued task can get: an idle one, or the next fresh one
Used == {wthr[w] : w \in {v \in Tasks : wst[v] # "queued" /\ wst[v] # "cancelled"}}
Busy == {wthr[w] : w \in Running}
FreeThreads ==
    (Used \ Busy) \cup
    (IF Used = 1 .. cfg.num_threads THEN {}
     ELSE {CHOOSE t \in (1 .. cfg.num_threads) \ Used :
              \A u \in (1 .. cfg.num_threads) \ Used : t <= u})

\* get_best_move up to the creation of the executor
GetBestMove ==
    /\ cpc = "idle" /\ calls < MaxCalls
    /\ calls' = calls + 1
    /\ cleaned' = FALSE
    /\ IF game.current_team # team
       THEN /\ best' = NoMove /\ cpc' = "returned"
            /\ UNCHANGED <<game, executor>>
       ELSE IF cfg.use_opening_book /\ is_first_turn(game) /\ team = "LEFT"
       THEN /\ game' = [game EXCEPT !.turn_count = @ + 1]
            /\ best' \in opening_book_move(game', cfg.level)
            /\ cpc' = "returned"
            /\ UNCHANGED executor
       ELSE /\ executor' = "open" /\ cpc' = "submit"
            /\ UNCHANGED <<game, best>>
    /\ UNCHANGED <<svars, team, cfg, wst, wthr, budget, done, tree, results,
                   merged, hist, timedOut, after, zombies>>

\* executor.submit for every thread_id; the pool starts with fresh threads
SubmitAll ==
    /\ cpc = "submit"
    /\ wst' = [w \in 1 .. cfg.num_threads |-> "queued"]
    /\ wthr' = [w \in 1 .. cfg.num_threads |-> 0]
    /\ budget' = [w \in 1 .. cfg.num_threads |->
                     ThreadIterations(cfg.iterations, cfg.num_threads, w)]
    /\ done' = [w \in 1 .. cfg.num_threads |-> 0]
    /\ after' = [w \in 1 .. cfg.num_threads |-> 0]
    /\ tree' = [w \in 1 .. cfg.num_threads |-> MCTSNode]
    /\ results' = <<>> /\ merged' = <<>> /\ timedOut' = FALSE
    /\ cpc' = "collect"
    /\ UNCHANGED <<svars, game, team, cfg, executor, best, hist, zombies, calls, cleaned>>

\* the pool cannot be created or a task cannot be submitted: the finally
\* block shuts the executor down and the exception leaves get_best_move
SubmitFails ==
    /\ cpc = "submit"
    /\ executor' = None
    /\ best' = Raised
    /\ cpc' = "returned"
    /\ wst' = <<>> /\ wthr' = <<>> /\ budget' = <<>> /\ done' = <<>>
    /\ after' = <<>> /\ tree' = <<>> /\ results' = <<>> /\ merged' = <<>>
    /\ UNCHANGED <<svars, game, team, cfg, hist, timedOut, zombies,
                   calls, cleaned>>

\* a pool thread takes task w and enters _run_mcts_thread
Start(w) ==
    /\ w \in Tasks /\ wst[w] = "queued"
    /\ \E t \in FreeThreads : wthr' = [wthr EXCEPT ![w] = t]
    /\ wst' = [wst EXCEPT ![w] = "running"]
    /\ UNCHANGED <<svars, game, cvars, budget, done, tree, hist, after>>

\* one iteration of the loop of _run_mcts_thread: _select_node (expansion
\* of an untried root move, or descent to a child and expansion below it),
\* simulate, backpropagate with the history update
Iterate(w) ==
    /\ w \in Tasks /\ wst[w] = "running" /\ done[w] < budget[w]
    /\ LET g == clone_game(game)
           root == tree[w]
           o == StrategyOf(w)
       IN \E r \in Rewards :
          IF get_winner(g) # None \/ get_legal_moves(g) = {}
          THEN /\ tree' = [tree EXCEPT ![w] = Backprop(root, r)]
               /\ UNCHANGED hist
          ELSE IF ~is_fully_expanded(root, g)
          THEN \E m \in Sample(get_legal_moves(g) \ ChildMoves(root)) :
                  /\ tree' = [tree EXCEPT ![w] = Expand(root, m, r)]
                  /\ IF UsesHistory
                     THEN /\ hist' = [hist EXCEPT ![o] =
                                 UpdateHistory(@, HistoryKey(g, m), r, TaskId(w))]
                     ELSE UNCHANGED hist
          ELSE \E i \in DOMAIN root.children :
                  LET c == root.children[i]
                      gc == Execute(g, c.move)
                  IN \E m \in Sample(get_legal_moves(gc)) :
                        /\ tree' = [tree EXCEPT ![w] = ExpandBelow(root, i, m, r)]
                        /\ IF UsesHistory
                           THEN /\ hist' = [hist EXCEPT ![o] =
                                       UpdateHistory(@, HistoryKey(gc, m), r, TaskId(w))]
                           ELSE UNCHANGED hist
    /\ done' = [done EXCEPT ![w] = @ + 1]
    /\ after' = [after EXCEPT ![w] = IF timedOut THEN @ + 1 ELSE @]
    /\ UNCHANGED <<svars, game, cvars, wst, wthr, budget>>

\* the loop is over: the selection strategy is reset and the root returned
Finish(w) ==
    /\ w \in Tasks /\ wst[w] = "running" /\ done[w] = budget[w]
    /\ wst' = [wst EXCEPT ![w] = "finished"]
    /\ IF UsesHistory
       THEN /\ hist' = [hist EXCEPT ![StrategyOf(w)] = EmptyTable]
       ELSE UNCHANGED hist
    /\ UNCHANGED <<svars, game, cvars, wthr, budget, done, tree, after>>

\* an exception inside _run_mcts_thread: the task returns None, its root is
\* dropped, and the selection strategy is not reset
Fail(w) ==
    /\ w \in Tasks /\ wst[w] = "running"
    /\ wst' = [wst EXCEPT ![w] = "failed"]
    /\ tree' = [tree EXCEPT ![w] = MCTSNode]
    /\ UNCHANGED <<svars, game, cvars, wthr, budget, done, hist, after>>

\* as_completed yields the future of a task that is over; after the last
\* one the finally block runs: shutdown(wait=False), _active_executor = None
Collect(w) ==
    /\ cpc = "collect"
    /\ w \in Tasks /\ wst[w] \in {"finished", "failed"}
    /\ results' = IF wst[w] = "finished" THEN Append(results, tree[w]) ELSE results
    /\ wst' = [wst EXCEPT ![w] = "taken"]
    /\ IF \A v \in Tasks : wst'[v] = "taken"
       THEN executor' = None /\ cpc' = "merge"
       ELSE UNCHANGED <<executor, cpc>>
    /\ UNCHANGED <<svars, game, team, cfg, merged, best, timedOut,
                   calls, cleaned, zombies, wthr, budget, done, tree, hist,
                   after>>

\* as_completed raises TimeoutError: future.cancel() on every future, which
\* only takes a task that has not started; then the finally block.  The
\* 300 s run out only while some task still has iterations to do.
Timeout ==
    /\ cpc = "collect"
    /\ \E w \in Tasks : wst[w] \in {"queued", "running"} /\ done[w] < budget[w]
    /\ timedOut' = TRUE
    /\ wst' = [w \in Tasks |-> IF wst[w] = "queued" THEN "cancelled" ELSE wst[w]]
    /\ executor' = None
    /\ cpc' = "merge"
    /\ UNCHANGED <<svars, game, team, cfg, results, merged, best,
                   calls, cleaned, zombies, wthr, budget, done, tree, hist,
                   after>>

\* _merge_trees, the final move selection, the restore of the snapshot
Merge ==
    /\ cpc = "merge"
    /\ merged' = merge_trees(results)
    /\ best' = IF merged' # <<>> /\ merged'[1].children # <<>>
               THEN RobustChild(merged'[1]) ELSE NoMove
    /\ game' = restore_game_state(game, get_game_state(game))
    /\ cpc' = "returned"
    /\ UNCHANGED <<svars, team, cfg, executor, results, timedOut,
                   calls, cleaned, zombies, wst, wthr, budget, done, tree,
                   hist, after>>

\* the caller has the result; tasks that still run go on in the background
\* (only what they do to a shared history table is followed), and the pool
\* threads that are idle end, taking their thread-local strategies with them
Return ==
    /\ cpc = "returned"
    /\ cpc' = "idle"
    /\ zombies' = zombies \o
          [i \in 1 .. Cardinality(Running) |->
             LET w == CHOOSE v \in Running :
                        Cardinality({u \in Running : u < v}) = i - 1
             IN IF cfg.selection = "ph_instance"
                THEN [id |-> TaskId(w), rem |-> budget[w] - done[w], obj |-> 0]
                ELSE [id |-> <<0, 0>>, rem |-> 0, obj |-> -1]]
    /\ wst' = <<>> /\ wthr' = <<>> /\ budget' = <<>> /\ done' = <<>>
    /\ after' = <<>> /\ tree' = <<>> /\ results' = <<>> /\ merged' = <<>>
    /\ timedOut' = FALSE
    /\ best' = NoMove
    /\ hist' = [o \in 0 .. MaxThreads |-> IF o = 0 THEN hist[0] ELSE EmptyTable]
    /\ UNCHANGED <<svars, game, team, cfg, executor, calls, cleaned>>

\* a task of an earlier call goes on: one more iteration, or its end
Remove(q, i) == [j \in 1 .. Len(q) - 1 |-> IF j < i THEN q[j] ELSE q[j + 1]]

ZombieStep(i) ==
    /\ i \in DOMAIN zombies
    /\ LET z == zombies[i]
           shared == z.obj = 0
       IN IF z.rem > 0
          THEN /\ zombies' = [zombies EXCEPT ![i].rem = @ - 1]
               /\ IF shared
                  THEN \E r \in Rewards :
                       \E m \in Sample(get_legal_moves(clone_game(game))) :
                          /\ hist' = [hist EXCEPT ![0] =
                                UpdateHistory(@, HistoryKey(game, m), r, z.id)]
                  ELSE UNCHANGED hist
          ELSE /\ zombies' = Remove(zombies, i)
               /\ IF shared
                  THEN /\ hist' = [hist EXCEPT ![0] = EmptyTable]
                  ELSE UNCHANGED hist
    /\ UNCHANGED <<svars, game, cpc, team, cfg, executor, results, merged,
                   best, timedOut, calls, cleaned, wst, wthr, budget, done,
                   tree, after>>

\* RootParallelMCTSAI.cleanup, called between two calls of get_best_move
Cleanup ==
    /\ cpc = "idle" /\ calls > 0 /\ ~cleaned
    /\ executor' = None
    /\ cleaned' = TRUE
    /\ UNCHANGED <<svars, game, cpc, team, cfg, results, merged, best,
                   timedOut, calls, zombies, wst, wthr, budget, done, tree,
                   hist, after>>

NextPar ==
    \/ GetBestMove
    \/ SubmitAll
    \/ SubmitFails
    \/ \E w \in 1 .. MaxThreads : Start(w)
    \/ \E w \in 1 .. MaxThreads : Iterate(w)
    \/ \E w \in 1 .. MaxThreads : Finish(w)
    \/ \E w \in 1 .. MaxThreads : Fail(w)
    \/ \E w \in 1 .. MaxThreads : Collect(w)
    \/ Timeout
    \/ Merge
    \/ Return
    \/ \E i \in 1 .. MaxThreads * MaxCalls : ZombieStep(i)
    \/ Cleanup

SpecPar == InitPar /\ [][NextPar]_vars

(***************************************************************************)
(* _merge_trees on its own: the roots that worker tasks of at most MaxIter  *)
(* iterations can return, handed to the merge in any number and order.     *)
(***************************************************************************)
RECURSIVE RootsAfter(_, _)
RootsAfter(k, g) ==
    IF k = 0 THEN {MCTSNode}
    ELSE LET T == RootsAfter(k - 1, g)
         IN T \cup UNION {{Expand(t, m, r) :
                              m \in Sample(get_legal_moves(g) \ ChildMoves(t)),
                              r \in Rewards} :
                            t \in {u \in T : Len(u.children) = k - 1}}

InitMerge ==
    /\ game \in StartGames
    /\ team = game.current_team
    /\ cfg = [level |-> 1, use_opening_book |-> FALSE, iterations |-> MaxIter,
              num_threads |-> MaxThreads, selection |-> "uct_class"]
    /\ cpc = "merge"
    /\ executor = None
    /\ results \in UNION {[1 .. n -> RootsAfter(MaxIter, clone_game(game))] :
                            n \in 0 .. MaxThreads}
    /\ wst = [w \in 1 .. MaxThreads |-> "taken"]
    /\ wthr = [w \in 1 .. MaxThreads |-> w]
    /\ budget = [w \in 1 .. MaxThreads |-> MaxIter]
    /\ done = [w \in 1 .. MaxThreads |-> MaxIter]
    /\ after = [w \in 1 .. MaxThreads |-> 0]
    /\ tree = [w \in 1 .. MaxThreads |-> MCTSNode]
    /\ merged = <<>> /\ best = NoMove
    /\ hist = [o \in 0 .. MaxThreads |-> EmptyTable]
    /\ timedOut = FALSE
    /\ zombies = <<>> /\ calls = 1 /\ cleaned = FALSE
    /\ SessionIdle
    /\ FunIdle

NextMerge == Merge

SpecMerge == InitMerge /\ [][NextMerge]_vars

(***************************************************************************)
(* Single function calls followed on their own (SpecClone).  op names the    *)
(* function, arg holds its arguments, ret what it returned.                *)
(***************************************************************************)
\* turns played before a call is made, and moves played on a copy afterwards
MaxAge == 3
MaxPlay == 2

\* the states a game can be in after at most k turns from the opening,
\* following the explored choices
RECURSIVE GamesAfter(_)
GamesAfter(k) ==
    IF k = 0 THEN {MastergoalGame(1)}
    ELSE LET G == GamesAfter(k - 1)
         IN G \cup UNION {{Execute(g, m) : m \in Explore(get_legal_moves(g))} :
                           g \in {h \in G : get_winner(h) = None}}

(***************************************************************************)
(* Games as object graphs.  A heap maps object identities to objects: a    *)
(* Position holds a cell, a Ball and a Player hold the identity of their   *)
(* Position, a list holds the identities of its Players.  A game object    *)
(* holds its scalar fields and the identities of its ball and player list. *)
(***************************************************************************)
\* the game object and the heap cells of a game value g, allocated from base:
\* the ball's position, the ball, each player's position and the player, then
\* the list
NewGame(g, base) ==
    LET n == Len(g.players)
        posOf(i) == base + 2 + 2 * i - 1
        plOf(i) == base + 2 + 2 * i
        listId == base + 2 * n + 3
    IN [obj |-> [level |-> g.level, LEFT_goals |-> g.LEFT_goals,
                 RIGHT_goals |-> g.RIGHT_goals, current_team |-> g.current_team,
                 last_possession_team |-> g.last_possession_team,
                 passes_count |-> g.passes_count, turn_count |-> g.turn_count,
                 skip_next_turn |-> g.skip_next_turn,
                 ball |-> base + 2, players |-> listId],
        cells |-> [o \in (base + 1) .. (base + 2 * n + 3) |->
                    IF o = base + 1 THEN [kind |-> "Position", cell |-> g.ball]
                    ELSE IF o = base + 2 THEN [kind |-> "Ball", position |-> base + 1]
                    ELSE IF o = listId
                    THEN [kind |-> "list", items |-> [i \in 1 .. n |-> plOf(i)]]
                    ELSE IF (o - base - 2) % 2 = 1
                    THEN [kind |-> "Position",
                          cell |-> g.players[(o - base - 1) \div 2].pos]
                    ELSE [kind |-> "Player", position |-> o - 1,
                          team |-> g.players[(o - base - 2) \div 2].team,
                          id |-> g.players[(o - base - 2) \div 2].id,
                          gk |-> g.players[(o - base - 2) \div 2].gk]]]

\* the game value an object graph stands for
Deref(h, G) ==
    LET items == h[G.players].items
    IN [level |-> G.level, LEFT_goals |-> G.LEFT_goals,
        RIGHT_goals |-> G.RIGHT_goals, current_team |-> G.current_team,
        last_possession_team |-> G.last_possession_team,
        passes_count |-> G.passes_count, turn_count |-> G.turn_count,
        skip_next_turn |-> G.skip_next_turn,
        ball |-> h[h[G.ball].position].cell,
        players |-> [i \in DOMAIN items |->
                       [team |-> h[items[i]].team, id |-> h[items[i]].id,
                        pos |-> h[h[items[i]].position].cell,
                        gk |-> h[items[i]].gk]]]

\* the objects reachable from a game object
Reach(h, G) ==
    LET items == h[G.players].items
    IN {G.ball, h[G.ball].position, G.players}
       \cup {items[i] : i \in DOMAIN items}
       \cup {h[items[i]].position : i \in DOMAIN items}

\* a clone that takes over the player list of the original
clone_game_shared_players(h, G) ==
    LET fresh == NewGame(Deref(h, G), Cardinality(DOMAIN h))
    IN [heap |-> fresh.cells @@ h,
        game |-> [fresh.obj EXCEPT !.players = G.players]]

\* clone_game on object graphs: a new game object with the scalar fields
\* copied, a new Ball with a new Position, a new list of new Players with new
\* Positions
clone_game_obj(h, G) ==
    LET fresh == NewGame(Deref(h, G), Cardinality(DOMAIN h))
    IN [heap |-> fresh.cells @@ h, game |-> fresh.obj]

\* execute_move / execute_kick on an object graph: the new field values are
\* written into the objects the game holds
ExecuteObj(h, G, m) ==
    LET g1 == Execute(Deref(h, G), m)
        items == h[G.players].items
        posIds == {h[items[i]].position : i \in DOMAIN items}
        idx(o) == CHOOSE i \in DOMAIN items : h[items[i]].position = o
    IN [heap |-> [o \in DOMAIN h |->
                    IF o = h[G.ball].position THEN [h[o] EXCEPT !.cell = g1.ball]
                    ELSE IF o \in posIds
                    THEN [h[o] EXCEPT !.cell = g1.players[idx(o)].pos]
                    ELSE h[o]],
        game |-> [G EXCEPT !.LEFT_goals = g1.LEFT_goals,
                           !.RIGHT_goals = g1.RIGHT_goals,
                           !.current_team = g1.current_team,
                           !.last_possession_team = g1.last_possession_team,
                           !.passes_count = g1.passes_count,
                           !.turn_count = g1.turn_count,
                           !.skip_next_turn = g1.skip_next_turn]]

\* arguments of clone_game: a game reached in play, as an object graph
CloneArgs ==
    {[heap |-> NewGame(g, 0).cells, game |-> NewGame(g, 0).obj] :
        g \in GamesAfter(MaxAge)}

\* clone_game(game)
CallClone ==
    /\ op = "clone_game" /\ ret = <<>>
    /\ ret' = [heap |-> clone_game_obj(arg.heap, arg.game).heap,
               game |-> clone_game_obj(arg.heap, arg.game).game,
               played |-> 0]
    /\ UNCHANGED <<game, wvars, evars, op, arg>>

\* a move or kick executed on the clone, as RandomExpansion.expand does once
\* and RandomPlayout.simulate does until the game is over
PlayClone ==
    /\ op = "clone_game" /\ ret # <<>>
    /\ ret.played < MaxPlay
    /\ get_winner(Deref(ret.heap, ret.game)) = None
    /\ \E m \in get_legal_moves(Deref(ret.heap, ret.game)) :
          ret' = [heap |-> ExecuteObj(ret.heap, ret.game, m).heap,
                  game |-> ExecuteObj(ret.heap, ret.game, m).game,
                  played |-> ret.played + 1]
    /\ UNCHANGED <<game, wvars, evars, op, arg>>

InitClone ==
    /\ game = MastergoalGame(1)
    /\ SessionIdle
    /\ EngineIdle
    /\ \/ op = "clone_game" /\ arg \in CloneArgs
    /\ ret = <<>>

NextClone ==
    \/ CallClone
    \/ PlayClone

SpecClone == InitClone /\ [][NextClone]_vars

(***************************************************************************)
(* get_best_move up to its first return or to the start of the search      *)
(* (SpecBook).                                                             *)
(***************************************************************************)
\* the opening layout of a level
BookLayout(level) == MastergoalGame(level)

Levels == {1, 2, 3}

\* the games an engine is asked about: an opening layout, or a level-1 game
\* in play
BookArgs ==
    [game : {BookLayout(l) : l \in Levels} \cup GamesAfter(MaxAge),
     team : Teams, use_opening_book : BOOLEAN, iterations : 0 .. MaxIter]

\* RootParallelMCTSAI.get_best_move for an engine built for the level of the
\* game
CallBestMove ==
    /\ op = "get_best_move" /\ ret = <<>>
    /\ ret' \in MCTS_get_best_move(arg.game, arg.team,
                    [level |-> arg.game.level,
                     use_opening_book |-> arg.use_opening_book,
                     iterations |-> arg.iterations, num_threads |-> 1])
    /\ UNCHANGED <<game, wvars, evars, op, arg>>

InitBook ==
    /\ game = MastergoalGame(1)
    /\ SessionIdle
    /\ EngineIdle
    /\ op = "get_best_move" /\ arg \in BookArgs
    /\ ret = <<>>

NextBook == CallBestMove

SpecBook == InitBook /\ [][NextBook]_vars

(***************************************************************************)
(* Final-move strategies (final_move.py), applied to a root on their own   *)
(* (SpecSelect).                                                           *)
(***************************************************************************)
MaxKids == 2
MaxVisits == 2

\* child.total_reward / child.visits of a is above that of b, both visited
MeanAbove(a, b) == a.total_reward * b.visits > b.total_reward * a.visits

\* MaxChildStrategy.select_move: an unvisited child has the key -inf
MaxChild(n) ==
    IF n.children = <<>> THEN NoMove
    ELSE LET c == n.children
             Beats(k, i) ==
                 IF c[k].visits = 0 THEN FALSE
                 ELSE IF c[i].visits = 0 THEN TRUE
                 ELSE MeanAbove(c[k], c[i])
             \* max(children, key): the first child whose key none beats
             first == CHOOSE i \in DOMAIN c :
                          /\ \A k \in DOMAIN c : ~Beats(k, i)
                          /\ \A k \in DOMAIN c : k < i => Beats(i, k)
         IN c[first].move

\* int(len(children_with_rewards) * top_percentage), the percentage in
\* hundredths
TopCount(n, pct) == Max2(1, (n * pct) \div 100)

\* RobustMaxChildStrategy.select_move
RobustMaxChild(n, pct) ==
    LET c == n.children
        seen == {i \in DOMAIN c : c[i].visits > 0}
        \* place of child i after the stable descending sort by mean
        place(i) == 1 + Cardinality({k \in seen :
                        MeanAbove(c[k], c[i]) \/ (~MeanAbove(c[i], c[k]) /\ k < i)})
        top == {i \in seen : place(i) <= TopCount(Cardinality(seen), pct)}
        pick == CHOOSE i \in top :
                    /\ \A k \in top : c[k].visits <= c[i].visits
                    /\ \A k \in top : place(k) < place(i) => c[k].visits < c[i].visits
    IN IF seen = {} THEN NoMove ELSE c[pick].move

FinalMoveStrategies == {"RobustChild", "MaxChild", "RobustMaxChild"}

\* every strategy answers as RobustChildStrategy
select_move_always_robust(strategy, n, pct) ==
    IF n.children = <<>> THEN NoMove ELSE RobustChild(n)

\* final_move_strategy.select_move(root, game)
select_move(strategy, n, pct) ==
    IF strategy = "RobustChild"
    THEN IF n.children = <<>> THEN NoMove ELSE RobustChild(n)
    ELSE IF strategy = "MaxChild" THEN MaxChild(n)
    ELSE RobustMaxChild(n, pct)

\* the move of the i-th child of a root
ChildMove(i) == <<"move", <<4, 5>>, <<4 + i, 5>>>>

\* visits and total_reward of a node whose playouts were all won, all lost
\* or level
NodeStats ==
    UNION {{[visits |-> v, total_reward |-> r] : r \in {0 - v, 0, v}} :
              v \in 0 .. MaxVisits}

RootOf(stats) ==
    [visits |-> 0, total_reward |-> 0,
     children |-> [i \in DOMAIN stats |->
                     [move |-> ChildMove(i), visits |-> stats[i].visits,
                      total_reward |-> stats[i].total_reward,
                      children |-> <<>>]]]

\* A (visits 50, reward 10) and B (visits 40, reward 30)
ExampleRoot ==
    RootOf(<<[visits |-> 50, total_reward |-> 10],
             [visits |-> 40, total_reward |-> 30]>>)

TopPercentages == {30, 50, 100}

SelectArgs ==
    [strategy : FinalMoveStrategies, pct : TopPercentages,
     root : {ExampleRoot} \cup
            UNION {{RootOf(st) : st \in [1 .. n -> NodeStats]} : n \in 0 .. MaxKids}]

CallSelect ==
    /\ op = "select_move" /\ ret = <<>>
    /\ ret' = [move |-> select_move(arg.strategy, arg.root, arg.pct)]
    /\ UNCHANGED <<game, wvars, evars, op, arg>>

InitSelect ==
    /\ game = MastergoalGame(1)
    /\ SessionIdle
    /\ EngineIdle
    /\ op = "select_move" /\ arg \in SelectArgs
    /\ ret = <<>>

NextSelect == CallSelect

SpecSelect == InitSelect /\ [][NextSelect]_vars

(***************************************************************************)
(* DecisiveMoveStrategy (final_move.py), applied to a root on its own      *)
(* (SpecDecisive).                                                         *)
(***************************************************************************)
\* _is_goal_opportunity(move, game)
is_goal_opportunity(m) ==
    m[1] = "kick" /\ (is_goal_LEFT(m[3]) \/ is_goal_RIGHT(m[3]))

\* _find_decisive_move: the move of the first such child, or None
find_decisive_move(n) ==
    LET c == n.children
        hits == {i \in DOMAIN c : is_goal_opportunity(c[i].move)}
    IN IF hits = {} THEN NoMove
       ELSE c[CHOOSE i \in hits : \A k \in hits : i <= k].move

\* DecisiveMoveStrategy.select_move: the move, and whether the fallback
\* strategy was consulted
Decisive_select_move(n, enable_decisive, fallback, pct) ==
    LET d == IF enable_decisive /\ n.children # <<>>
             THEN find_decisive_move(n) ELSE NoMove
    IN IF d # NoMove
       THEN [move |-> d, fallback |-> FALSE]
       ELSE [move |-> select_move(fallback, n, pct), fallback |-> TRUE]

\* a level-1 game in play with the LEFT player on cell p with the ball, LEFT
\* to move
Carrying(p) ==
    [MastergoalGame(1) EXCEPT !.ball = p, !.players[1].pos = p,
                              !.turn_count = MaxAge + 1]

\* the ball carried within reach of the one goal or of the other
CarryCells == {<<3, 5>>, <<11, 5>>}

\* the moves a root can have children for
RootMoves(g) ==
    {m \in Explore(get_legal_moves(g)) : m[1] = "kick"}
        \cup Sample({m \in get_legal_moves(g) : m[1] = "move"})

\* the roots a search from g can leave: children for distinct legal moves,
\* in any order
RootsOver(g) ==
    {[visits |-> 0, total_reward |-> 0,
      children |-> [i \in DOMAIN ms |->
                      [move |-> ms[i], visits |-> i, total_reward |-> 0,
                       children |-> <<>>]]] :
        ms \in {q \in UNION {[1 .. n -> RootMoves(g)] : n \in 0 .. MaxKids} :
                  \A i, j \in DOMAIN q : i # j => q[i] # q[j]}}

DecisiveArgs ==
    UNION {[game : {g}, root : RootsOver(g), enable_decisive : BOOLEAN,
            fallback : FinalMoveStrategies, pct : {50}] :
              g \in {Carrying(p) : p \in CarryCells}}

CallDecisive ==
    /\ op = "decisive" /\ ret = <<>>
    /\ ret' = Decisive_select_move(arg.root, arg.enable_decisive,
                                   arg.fallback, arg.pct)
    /\ UNCHANGED <<game, wvars, evars, op, arg>>

InitDecisive ==
    /\ game = MastergoalGame(1)
    /\ SessionIdle
    /\ EngineIdle
    /\ op = "decisive" /\ arg \in DecisiveArgs
    /\ ret = <<>>

NextDecisive == CallDecisive

SpecDecisive == InitDecisive /\ [][NextDecisive]_vars

(***************************************************************************)
(* RandomPlayout (simulation.py), one playout followed step by step        *)
(* (SpecPlayout).                                                          *)
(***************************************************************************)
\* game.get_winner() of a game with an optional internal turn cap (a set of
\* at most one value): a side with the goals, DRAW at the cap, or nothing
get_winner_capped(g, cap) ==
    IF get_winner(g) # None THEN get_winner(g)
    ELSE IF \E n \in cap : g.turn_count >= n THEN "DRAW"
    ELSE None

\* RandomPlayout.calculate_reward
calculate_reward(winner, AI_team) ==
    IF winner = AI_team THEN 1
    ELSE IF winner = None THEN 0
    ELSE -1

\* a level-1 game in which team t, one goal short of winning, carries the
\* ball three cells from the goal it attacks and is to move
NearWin(t) ==
    IF t = "LEFT"
    THEN [Carrying(<<11, 5>>) EXCEPT !.LEFT_goals = WinGoals - 1]
    ELSE [MastergoalGame(1) EXCEPT !.ball = <<3, 5>>, !.players[2].pos = <<3, 5>>,
                                   !.current_team = "RIGHT",
                                   !.last_possession_team = "RIGHT",
                                   !.RIGHT_goals = WinGoals - 1,
                                   !.turn_count = MaxAge + 2]

\* node.game_state of the simulated node, the team of the engine, and the
\* internal cap of the game, if it has one
PlayoutArgs ==
    UNION {[game : {g}, AI_team : Teams,
            cap : {{}, {g.turn_count + MaxPlay}}] :
              g \in {NearWin(t) : t \in Teams} \cup GamesAfter(MaxAge)}

\* game = clone_game(node.game_state); the reward is a sequence, empty until
\* the playout has returned
StartPlayout ==
    /\ op = "simulate" /\ ret = <<>>
    /\ ret' = [game |-> clone_game(arg.game), reward |-> <<>>, played |-> 0]
    /\ UNCHANGED <<game, wvars, evars, op, arg>>

\* one pass of the loop: a random legal move is executed
PlayoutStep ==
    /\ op = "simulate" /\ ret # <<>> /\ ret.reward = <<>>
    /\ ret.played < MaxPlay
    /\ get_winner_capped(ret.game, arg.cap) = None
    /\ \E m \in Explore(get_legal_moves(ret.game)) :
          ret' = [ret EXCEPT !.game = Execute(@, m), !.played = @ + 1]
    /\ UNCHANGED <<game, wvars, evars, op, arg>>

\* the loop is left, with a winner or without a legal move, and the reward
\* is returned
PlayoutEnd ==
    /\ op = "simulate" /\ ret # <<>> /\ ret.reward = <<>>
    /\ \/ get_winner_capped(ret.game, arg.cap) # None
       \/ get_legal_moves(ret.game) = {}
    /\ ret' = [ret EXCEPT !.reward =
                 <<calculate_reward(get_winner_capped(ret.game, arg.cap),
                                    arg.AI_team)>>]
    /\ UNCHANGED <<game, wvars, evars, op, arg>>

InitPlayout ==
    /\ game = MastergoalGame(1)
    /\ SessionIdle
    /\ EngineIdle
    /\ op = "simulate" /\ arg \in PlayoutArgs
    /\ ret = <<>>

NextPlayout ==
    \/ StartPlayout
    \/ PlayoutStep
    \/ PlayoutEnd

SpecPlayout == InitPlayout /\ [][NextPlayout]_vars

(***************************************************************************)
(* Backpropagation of one iteration, in RootParallelMCTSAI and in MCTSAI   *)
(* (SpecBackprop).  A tree is a function from paths to the counters of the *)
(* node at the path; the parent of a node is the path without its last     *)
(* step.                                                                   *)
(***************************************************************************)
MaxDepth == 2
MaxWidth == 2

Paths == UNION {[1 .. d -> 1 .. MaxWidth] : d \in 0 .. MaxDepth}

Parent(q) == SubSeq(q, 1, Len(q) - 1)

\* q is on the parent chain of node, node itself included
OnChain(q, node) == Len(q) <= Len(node) /\ q = SubSeq(node, 1, Len(q))

\* the nodes a tree must hold to hold q: its parent chain and, on every
\* level, the children appended before
Needed(q) ==
    {x \in Paths : /\ x # <<>> /\ Len(x) <= Len(q)
                   /\ Parent(x) = SubSeq(q, 1, Len(x) - 1)
                   /\ x[Len(x)] <= q[Len(x)]} \cup {<<>>}

\* the trees that hold two given nodes and what these need
TreeShapes == {Needed(p) \cup Needed(q) : p \in Paths, q \in Paths}

\* the nodes without children
Leaves(S) == {q \in S : \A x \in S : x = q \/ ~OnChain(q, x)}

\* a tree grown by expansions rewarded 0, node being the one just expanded:
\* every other node below the root has passed one visit to each node of its
\* parent chain
TreeOf(S, node) ==
    [q \in S |-> [visits |-> Cardinality({x \in S \ {node, <<>>} : OnChain(q, x)}),
                  total_reward |-> 0]]

\* (team, move) of the node at path q: node.game_state.current_team, node.move
KeyOf(q) ==
    <<IF Len(q) % 2 = 1 THEN "RIGHT" ELSE "LEFT", ChildMove(q[Len(q)])>>

\* StandardBackpropagation.backpropagate(node, reward) with its ph_selector
\* (has_history: the selector has update_history)
backpropagate(t, tab, node, r, has_history) ==
    [tree |-> [q \in DOMAIN t |->
                 IF OnChain(q, node)
                 THEN [t[q] EXCEPT !.visits = @ + 1, !.total_reward = @ + r]
                 ELSE t[q]],
     table |-> IF has_history /\ node # <<>>
               THEN UpdateHistory(tab, KeyOf(node), r, 0)
               ELSE tab]

\* MCTSAI._backpropagate_with_path(node, reward)
backpropagate_with_path(t, tab, node, r) ==
    [tree |-> [q \in DOMAIN t |->
                 IF OnChain(q, node)
                 THEN [t[q] EXCEPT !.visits = @ + 1, !.total_reward = @ + r]
                 ELSE t[q]],
     table |-> tab]

Engines == {"RootParallelMCTSAI", "MCTSAI"}

SelectionStrategies == {"UCTSelection", "ProgressiveHistorySelection"}

\* the simulated node of an iteration, its reward, the engine and its
\* selection strategy
BackpropArgs ==
    UNION {UNION {[tree : {TreeOf(S, n)}, node : {n}, reward : {1, 0, -1},
                   engine : Engines, selection : SelectionStrategies] :
                     n \in Leaves(S)} :
              S \in TreeShapes}

\* the backpropagation step of one iteration: _run_mcts_thread calls the
\* strategy object, MCTSAI.get_best_move calls _backpropagate_with_path
CallBackprop ==
    /\ op = "backpropagate" /\ ret = <<>>
    /\ ret' = IF arg.engine = "RootParallelMCTSAI"
              THEN backpropagate(arg.tree, EmptyTable, arg.node, arg.reward,
                                 arg.selection = "ProgressiveHistorySelection")
              ELSE backpropagate_with_path(arg.tree, EmptyTable, arg.node,
                                           arg.reward)
    /\ UNCHANGED <<game, wvars, evars, op, arg>>

InitBackprop ==
    /\ game = MastergoalGame(1)
    /\ SessionIdle
    /\ EngineIdle
    /\ op = "backpropagate" /\ arg \in BackpropArgs
    /\ ret = <<>>

NextBackprop == CallBackprop

SpecBackprop == InitBackprop /\ [][NextBackprop]_vars

(***************************************************************************)
(* Two runs of get_best_move with one worker thread, from the same state   *)
(* with the same budget, after random.seed with the same seed (SpecSeed).  *)
(***************************************************************************)
MaxSeed == 2

\* the place of a move in the order get_legal_moves lists the moves
MoveRank(m) ==
    (IF m[1] = "kick" THEN ROWS * COLS * ROWS * COLS ELSE 0)
        + (m[2][1] * COLS + m[2][2]) * ROWS * COLS + m[3][1] * COLS + m[3][2]

\* the move at index d of the list a set of moves is enumerated as
Listed(S, d) ==
    CHOOSE m \in S : Cardinality({x \in S : MoveRank(x) < MoveRank(m)}) = d

\* the index the k-th draw of the generator seeded with seed picks among n
Draw(seed, k, n) == ((seed + 1) * (k + 1) + k) % n

\* random.choice(list) at draw k
Choice(seed, k, list) == list[1 + Draw(seed, k, Len(list))]

\* one iteration of _run_mcts_thread on a root that is not fully expanded:
\* the expansion draws the move, the playout draws its moves and ends in a
\* reward
SeededIteration(run, g, seed) ==
    LET S == get_legal_moves(g) \ ChildMoves(run.root)
        m == Listed(S, Draw(seed, run.k, Cardinality(S)))
        r == Choice(seed, run.k + 1, <<1, -1>>)
    IN [run EXCEPT !.k = @ + 2, !.done = @ + 1, !.root = Expand(@, m, r)]

FreshRun == [k |-> 0, done |-> 0, root |-> MCTSNode, out |-> <<>>,
             timedOut |-> FALSE]

SeedArgs ==
    [game : {g \in GamesAfter(MaxAge) : get_winner(g) = None},
     iterations : 0 .. MaxIter, seed : 0 .. MaxSeed]

\* the worker of run i completes one iteration
SeedIterate(i) ==
    /\ op = "seeded_runs" /\ ret[i].out = <<>>
    /\ ret[i].done < arg.iterations
    /\ ret' = [ret EXCEPT ![i] = SeededIteration(@, arg.game, arg.seed)]
    /\ UNCHANGED <<game, wvars, evars, op, arg>>

\* the worker of run i has returned its root: merge, select, return
SeedReturn(i) ==
    /\ op = "seeded_runs" /\ ret[i].out = <<>>
    /\ ret[i].done = arg.iterations
    /\ ret' = [ret EXCEPT ![i].out =
                 <<LET mr == merge_trees(<<ret[i].root>>)
                   IN IF mr # <<>> /\ mr[1].children # <<>>
                      THEN RobustChild(mr[1]) ELSE NoMove>>]
    /\ UNCHANGED <<game, wvars, evars, op, arg>>

\* as_completed(futures, timeout=300) gives up on the worker of run i:
\* thread_results is empty and get_best_move returns None
SeedTimeout(i) ==
    /\ op = "seeded_runs" /\ ret[i].out = <<>>
    /\ ret[i].done < arg.iterations
    /\ ret' = [ret EXCEPT ![i].out = <<NoMove>>, ![i].timedOut = TRUE]
    /\ UNCHANGED <<game, wvars, evars, op, arg>>

InitSeed ==
    /\ game = MastergoalGame(1)
    /\ SessionIdle
    /\ EngineIdle
    /\ op = "seeded_runs" /\ arg \in SeedArgs
    /\ ret = <<FreshRun, FreshRun>>

NextSeed ==
    \E i \in {1, 2} :
        \/ SeedIterate(i)
        \/ SeedReturn(i)
        \/ SeedTimeout(i)

SpecSeed == InitSeed /\ [][NextSeed]_vars

(***************************************************************************)
(* GameManager.check_game_status called on its own (SpecStatus).           *)
(***************************************************************************)
\* the game right after team t, one goal short, kicked the ball into the goal
Scored(t) ==
    execute_kick(NearWin(t), IF t = "LEFT" THEN <<ROWS - 1, 5>> ELSE <<0, 5>>)

\* games with and without a side at the internal goal limit; win_goals and
\* max_turns as the caller may supply them (a set of at most one value)
StatusArgs ==
    [game : GamesAfter(MaxAge) \cup {NearWin(t) : t \in Teams}
                \cup {Scored(t) : t \in Teams},
     win_goals : {{}, {WinGoals}, {WinGoals + 1}},
     max_turns_enabled : BOOLEAN,
     max_turns : {{}, {MaxAge}, {MaxAge + MaxPlay + 1}}]

CallStatus ==
    /\ op = "check_game_status" /\ ret = <<>>
    /\ ret' = check_game_status(arg.game, arg.win_goals, arg.max_turns_enabled,
                                arg.max_turns)
    /\ UNCHANGED <<game, wvars, evars, op, arg>>

InitStatus ==
    /\ game = MastergoalGame(1)
    /\ SessionIdle
    /\ EngineIdle
    /\ op = "check_game_status" /\ arg \in StatusArgs
    /\ ret = <<>>

NextStatus == CallStatus

SpecStatus == InitStatus /\ [][NextStatus]_vars

(***************************************************************************)
(* The request handlers new_game and make_move (app.py), each called on    *)
(* its own on a server with its sessions (SpecWeb).  active_games is a     *)
(* sequence of sessions, the game id being the index.                      *)
(***************************************************************************)
\* the games reached in at most k turns with the moves that led there
RECURSIVE PlayedAfter(_)
PlayedAfter(k) ==
    IF k = 0 THEN {[game |-> MastergoalGame(1), move_history |-> <<>>]}
    ELSE LET P == PlayedAfter(k - 1)
         IN P \cup UNION {{[game |-> Execute(p.game, m),
                            move_history |->
                                Append(p.move_history, Payload(p.game.current_team, m))] :
                              m \in Explore(get_legal_moves(p.game))} :
                            p \in {x \in P : get_winner(x.game) = None}}

\* a player-against-player session, or a session against an AI
Session(p, mode, color) ==
    [game |-> p.game, move_history |-> p.move_history,
     status |-> IF SessionStatus(p.game).ended THEN "completed" ELSE "active",
     mode |-> mode, player_color |-> color,
     ai_color |-> IF mode = "pve" THEN Opp(color) ELSE None]

\* the body of a new-game request: values inside and outside what the
\* handler accepts
NewGameData ==
    [level : 0 .. 4, difficulty : {"easy", "medium", "hard", "expert"},
     playerColor : {"LEFT", "RIGHT", "UP"}, mode : {"pve", "pvp"}]

\* new_game without the check of the difficulty
new_game_no_difficulty_check(active, data) ==
    IF data.level \notin {1, 2, 3} \/ data.playerColor \notin {"LEFT", "RIGHT"}
    THEN [code |-> 400, active |-> active]
    ELSE [code |-> 200,
          active |-> Append(active,
              Session([game |-> BookLayout(data.level), move_history |-> <<>>],
                      data.mode, data.playerColor))]

\* POST /api/game/new
new_game(active, data) ==
    IF data.level \notin {1, 2, 3} THEN [code |-> 400, active |-> active]
    ELSE IF data.difficulty \notin {"easy", "medium", "hard"}
    THEN [code |-> 400, active |-> active]
    ELSE IF data.playerColor \notin {"LEFT", "RIGHT"}
    THEN [code |-> 400, active |-> active]
    ELSE [code |-> 200,
          active |-> Append(active,
              Session([game |-> BookLayout(data.level), move_history |-> <<>>],
                      data.mode, data.playerColor))]

\* make_move without the check of the turn
make_move_any_turn(active, id, req) ==
    LET sn == active[id]
        r == GM_execute_move(sn.game, req)
    IN IF id \notin DOMAIN active THEN [code |-> 404, active |-> active]
       ELSE IF sn.status # "active" \/ req.shape = "missing"
       THEN [code |-> 400, active |-> active]
       ELSE IF ~r.ok
       THEN [code |-> 400, active |-> [active EXCEPT ![id].game = r.game]]
       ELSE [code |-> 200,
             active |-> [active EXCEPT
                 ![id].game = r.game,
                 ![id].move_history =
                     Append(@, Payload(sn.player_color,
                                       <<req.type, req.from, req.to>>)),
                 ![id].status = IF SessionStatus(r.game).ended
                                THEN "completed" ELSE @]]

\* POST /api/game/<id>/move up to the AI turn
make_move(active, id, req) ==
    LET sn == active[id]
        r == GM_execute_move(sn.game, req)
    IN IF id \notin DOMAIN active THEN [code |-> 404, active |-> active]
       ELSE IF sn.status # "active" \/ req.shape = "missing"
       THEN [code |-> 400, active |-> active]
       ELSE IF sn.mode = "pve" /\ sn.game.current_team # sn.player_color
       THEN [code |-> 400, active |-> active]
       ELSE IF ~r.ok
       THEN [code |-> 400, active |-> [active EXCEPT ![id].game = r.game]]
       ELSE [code |-> 200,
             active |-> [active EXCEPT
                 ![id].game = r.game,
                 ![id].move_history =
                     Append(@, Payload(sn.player_color,
                                       <<req.type, req.from, req.to>>)),
                 ![id].status = IF SessionStatus(r.game).ended
                                THEN "completed" ELSE @]]

\* servers with no session or with one in play
Servers ==
    {<<>>} \cup {<<Session(p, mode, c)>> :
                    p \in PlayedAfter(MaxPlay), mode \in {"pve", "pvp"}, c \in Teams}

\* a request to a server; a move request of the human on their turn that
\* would pass the turn to the AI is followed by Spec
WebArgs ==
    [kind : {"new_game"}, active : Servers, data : NewGameData]
    \cup UNION {[kind : {"make_move"}, active : {sv}, id : {1},
                 req : {q \in Requests(sv[1].game) :
                          sv[1].mode = "pve" =>
                            \/ sv[1].game.current_team # sv[1].player_color
                            \/ ~GM_execute_move(sv[1].game, q).ok}] :
                  sv \in Servers \ {<<>>}}

CallNewGame ==
    /\ op = "request" /\ ret = <<>> /\ arg.kind = "new_game"
    /\ ret' = new_game(arg.active, arg.data)
    /\ UNCHANGED <<game, wvars, evars, op, arg>>

CallMakeMove ==
    /\ op = "request" /\ ret = <<>> /\ arg.kind = "make_move"
    /\ ret' = make_move(arg.active, arg.id, arg.req)
    /\ UNCHANGED <<game, wvars, evars, op, arg>>

InitWeb ==
    /\ game = MastergoalGame(1)
    /\ SessionIdle
    /\ EngineIdle
    /\ op = "request" /\ arg \in WebArgs
    /\ ret = <<>>

NextWeb ==
    \/ CallNewGame
    \/ CallMakeMove

SpecWeb == InitWeb /\ [][NextWeb]_vars

(***************************************************************************)
(***************************************************************************)
(* HeuristicAgent.get_move on its own (SpecHeur): the agent is asked on    *)
(* its turn about positions in play at levels 1 and 2.                     *)
(***************************************************************************)
\* the same position seen from the other end of the board
MirrorPos(p) == <<ROWS - 1 - p[1], p[2]>>

Mirror(g) ==
    LET n == Len(g.players) \div 2
        other(i) == IF i <= n THEN i + n ELSE i - n
    IN [g EXCEPT !.current_team = Opp(@),
                 !.last_possession_team = Opp(@),
                 !.LEFT_goals = g.RIGHT_goals,
                 !.RIGHT_goals = g.LEFT_goals,
                 !.ball = MirrorPos(@),
                 !.players = [i \in DOMAIN g.players |->
                                [g.players[i] EXCEPT
                                    !.pos = MirrorPos(g.players[other(i)].pos)]]]

\* a position in play: the pieces of the level on the given cells, LEFT to
\* move
Placed(level, ball, cells) ==
    [MastergoalGame(level) EXCEPT
        !.ball = ball,
        !.turn_count = MaxAge + 1,
        !.players = [i \in DOMAIN @ |-> [@[i] EXCEPT !.pos = cells[i]]]]

\* cells the pieces are put on: the opening cells, the centre, the flanks
\* and the far goal line
HeurCells(level) ==
    IF level = 1
    THEN {<<4, 5>>, <<6, 5>>, <<7, 5>>, <<13, 5>>, <<3, 2>>}
            \X {<<10, 5>>, <<8, 5>>, <<7, 7>>, <<2, 2>>}
    ELSE {<<4, 5>>, <<7, 5>>, <<14, 0>>, <<10, 4>>}
            \X {<<2, 5>>, <<8, 5>>, <<12, 2>>, <<3, 5>>}
            \X {<<10, 5>>, <<14, 1>>, <<7, 7>>}
            \X {<<12, 5>>}

Distinct(cells) == \A i, j \in DOMAIN cells : i # j => cells[i] # cells[j]

\* the ball lies on the centre cell or with the first LEFT piece
HeurGames ==
    LET left_of(l) == UNION {{Placed(l, b, c) : b \in {CentreCell, c[1]}} :
                               c \in {d \in HeurCells(l) : Distinct(d)}}
        L == left_of(1) \cup left_of(2)
    IN L \cup {Mirror(g) : g \in L}

HeurArgs == [game : HeurGames]

\* HeuristicAgent.get_move after set_team(current_team)
CallHeur ==
    /\ op = "heuristic" /\ ret = <<>>
    /\ ret' \in HeuristicAgent_get_move(arg.game, arg.game.current_team)
    /\ UNCHANGED <<game, wvars, evars, op, arg>>

InitHeur ==
    /\ game = MastergoalGame(1)
    /\ SessionIdle
    /\ EngineIdle
    /\ op = "heuristic" /\ arg \in HeurArgs
    /\ ret = <<>>

NextHeur == CallHeur

SpecHeur == InitHeur /\ [][NextHeur]_vars

(***************************************************************************)
(* The rules on their own (SpecRules): legal moves are executed from the   *)
(* openings of the three levels and from positions in play.  ret holds the *)
(* state before the last move, the move, and the number of moves played.   *)
(***************************************************************************)
\* cells of the pieces in the positions in play, in roster order
RuleCells(level) ==
    IF level = 1
    THEN {<<7, 5>>, <<13, 5>>} \X {<<10, 5>>, <<8, 5>>}
    ELSE IF level = 2
    THEN {<<7, 5>>} \X {<<7, 8>>, <<9, 7>>}
            \X {<<10, 5>>, <<8, 6>>} \X {<<12, 5>>}
    ELSE {<<11, 2>>, <<12, 5>>} \X {<<13, 0>>, <<4, 7>>} \X {<<13, 3>>}
            \X {<<2, 8>>} \X {<<1, 5>>}
            \X {<<10, 3>>} \X {<<10, 7>>} \X {<<12, 8>>} \X {<<11, 8>>}
            \X {<<14, 5>>}

\* the opening of a level, or a position in play with the ball at the feet
\* of the first piece of the side to move
RuleStarts ==
    LET L == UNION {{Placed(l, c[1], c) : c \in RuleCells(l)} : l \in Levels}
    IN {MastergoalGame(l) : l \in Levels} \cup L \cup {Mirror(g) : g \in L}

\* the moves that are followed: every kick, and the moves that end on the
\* ball or next to it
RulePlays(g) ==
    {m \in get_legal_moves(g) : m[1] = "kick" \/ distance(m[3], g.ball) <= 1}

Played == IF ret = <<>> THEN 0 ELSE ret.played

\* game.execute_move / game.execute_kick of a legal move
Play(m) ==
    /\ op = "play" /\ Played < MaxPlay
    /\ game' = Execute(game, m)
    /\ ret' = [pre |-> game, move |-> m, played |-> Played + 1]
    /\ UNCHANGED <<wvars, evars, op, arg>>

InitRules ==
    /\ game \in RuleStarts
    /\ SessionIdle
    /\ EngineIdle
    /\ op = "play" /\ arg = <<>>
    /\ ret = <<>>

NextRules == Played < MaxPlay /\ \E m \in RulePlays(game) : Play(m)

SpecRules == InitRules /\ [][NextRules]_vars

(***************************************************************************)
(* The web session at level 3 (SpecTile): the handlers of Spec, from       *)
(* positions in play in which a kick can land on a special tile.           *)
(***************************************************************************)
\* level-3 positions in play with the ball two cells from a corner, either
\* side to move, one turn before the model stops issuing requests
TileGames ==
    LET L == {Placed(3, c[1], c) : c \in {d \in RuleCells(3) : d[1] = <<11, 2>>}}
    IN {[g EXCEPT !.turn_count = MaxTurns - 1] : g \in L \cup {Mirror(h) : h \in L}}

\* the requests of the client: those of Spec, and every legal kick
TileRequests(g) ==
    Requests(g) \cup {Req(m[1], m[2], m[3]) : m \in {k \in get_legal_moves(g) : k[1] = "kick"}}

InitTile ==
    /\ game \in TileGames
    /\ status = "active"
    /\ history = <<>>
    /\ aiKind \in AgentKinds
    /\ aiColor \in Teams
    /\ pc = "idle" /\ chain = 0
    /\ execCall = <<>> /\ agentCall = <<>>
    /\ EngineIdle
    /\ FunIdle

NextTile ==
    \/ \E req \in TileRequests(game) : MakeMove(req)
    \/ GetState
    \/ AIStep

SpecTile == InitTile /\ [][NextTile]_vars

\* the same session from the positions with LEFT to move and both its special
\* tiles free, with the thread of a request running on: a round of the AI
\* loop that can be taken is taken (SpecChain)
ChainGames ==
    {g \in TileGames : /\ g.current_team = "LEFT"
                       /\ \A t \in SpecialTiles("LEFT") : ~Occupied(g, t)}

InitChain ==
    /\ game \in ChainGames
    /\ status = "active"
    /\ history = <<>>
    /\ aiKind \in AgentKinds
    /\ aiColor \in Teams
    /\ pc = "idle" /\ chain = 0
    /\ execCall = <<>> /\ agentCall = <<>>
    /\ EngineIdle
    /\ FunIdle

SpecChain == InitChain /\ [][NextTile]_vars /\ WF_vars(AIStep)

(***************************************************************************)
(* The web session near its end (SpecEnd): a side is one goal short of     *)
(* win_goals and carries the ball three cells from the goal it attacks.    *)
(***************************************************************************)
EndGames == {[NearWin(t) EXCEPT !.turn_count = MaxTurns - 2] : t \in Teams}

InitEnd ==
    /\ game \in EndGames
    /\ status = "active"
    /\ history = <<>>
    /\ aiKind \in AgentKinds
    /\ aiColor \in Teams
    /\ pc = "idle" /\ chain = 0
    /\ execCall = <<>> /\ agentCall = <<>>
    /\ EngineIdle
    /\ FunIdle

SpecEnd == InitEnd /\ [][Next]_vars

(***************************************************************************)
(* get_best_move from the split of the budget to the merge, every worker   *)
(* returning its root (SpecSplit).                                         *)
(***************************************************************************)
\* self.iterations and self.num_threads
SplitArgs == [iterations : 0 .. MaxIter + 1, num_threads : 1 .. MaxThreads + 1]

\* the roots a worker returns after k iterations on game g
RootsOf(k, g) == {u \in RootsAfter(k, g) : Len(u.children) = k}

\* thread_iterations of every worker
SplitBudget ==
    /\ op = "split" /\ ret = <<>>
    /\ ret' = [budget |-> [w \in 1 .. arg.num_threads |->
                             ThreadIterations(arg.iterations, arg.num_threads, w)],
               results |-> <<>>, merged |-> <<>>]
    /\ UNCHANGED <<game, wvars, evars, op, arg>>

\* the next worker has run its iterations and its root is collected
CollectRoot ==
    /\ op = "split" /\ ret # <<>> /\ Len(ret.results) < arg.num_threads
    /\ \E root \in RootsOf(ret.budget[Len(ret.results) + 1], clone_game(game)) :
          ret' = [ret EXCEPT !.results = Append(@, root)]
    /\ UNCHANGED <<game, wvars, evars, op, arg>>

\* _merge_trees on the collected roots
MergeCollected ==
    /\ op = "split" /\ ret # <<>> /\ Len(ret.results) = arg.num_threads
    /\ ret.merged = <<>>
    /\ ret' = [ret EXCEPT !.merged = merge_trees(ret.results)]
    /\ UNCHANGED <<game, wvars, evars, op, arg>>

InitSplit ==
    /\ game = MastergoalGame(1)
    /\ SessionIdle
    /\ EngineIdle
    /\ op = "split" /\ arg \in SplitArgs
    /\ ret = <<>>

NextSplit ==
    \/ SplitBudget
    \/ CollectRoot
    \/ MergeCollected

SpecSplit == InitSplit /\ [][NextSplit]_vars

(***************************************************************************)
(* The loop of RandomPlayout.simulate followed to its end (SpecLoop).      *)
(***************************************************************************)
\* turn_count is read only through the cap of the game: the counts past the
\* cap, and all counts of a game without a cap, stand for one another
Counted(g, start, cap) ==
    IF cap = {} THEN [g EXCEPT !.turn_count = start]
    ELSE LET top == CHOOSE n \in cap : TRUE
         IN [g EXCEPT !.turn_count = IF @ > top THEN top ELSE @]

\* node.game_state, the team of the engine and the internal cap of the game
LoopArgs ==
    UNION {[game : {g}, AI_team : {"LEFT"},
            cap : {{}, {g.turn_count + MaxPlay}}] :
              g \in {NearWin(t) : t \in Teams} \cup {MastergoalGame(1)}}

\* the draws of the playout range over the explored candidates that end in
\* a goal or within MaxPlay rows of the centre, when there is one
Midfield(S) ==
    LET C == {m \in Explore(S) : \/ distance(m[3], CentreCell) <= MaxPlay
                                 \/ is_goal_LEFT(m[3])
                                 \/ is_goal_RIGHT(m[3])}
    IN IF C # {} THEN C ELSE Explore(S)

\* one pass of the loop, as often as the condition of the while holds
LoopStep ==
    /\ op = "simulate" /\ ret # <<>> /\ ret.reward = <<>>
    /\ get_winner_capped(ret.game, arg.cap) = None
    /\ \E m \in Midfield(get_legal_moves(ret.game)) :
          ret' = [ret EXCEPT !.game = Counted(Execute(@, m), arg.game.turn_count,
                                             arg.cap),
                             !.played = IF @ < MaxPlay THEN @ + 1 ELSE @]
    /\ UNCHANGED <<game, wvars, evars, op, arg>>

InitLoop ==
    /\ game = MastergoalGame(1)
    /\ SessionIdle
    /\ EngineIdle
    /\ op = "simulate" /\ arg \in LoopArgs
    /\ ret = <<>>

NextLoop ==
    \/ StartPlayout
    \/ LoopStep
    \/ PlayoutEnd

\* the thread of the playout keeps running: a step that can be taken is taken
SpecLoop == InitLoop /\ [][NextLoop]_vars /\ WF_vars(NextLoop)

(***************************************************************************)

(* The search tree of one worker with the states of its nodes (SpecTree).  *)
(***************************************************************************)
\* MCTSNode(game_state, parent, move) as far as expansion reads it
SearchNode(g, m) == [game_state |-> g, move |-> m, children |-> <<>>]

\* an expansion that draws among all legal moves
Unexplored_all(n) == get_legal_moves(n.game_state)

\* unexploRIGHT in RandomExpansion.expand
Unexplored(n) == get_legal_moves(n.game_state) \ ChildMoves(n)

\* RandomExpansion.expand: the nodes n can become
expand(n) ==
    IF Unexplored(n) = {} THEN {n}
    ELSE {[n EXCEPT !.children =
              Append(@, SearchNode(Execute(clone_game(n.game_state), m), m))] :
            m \in Explore(Unexplored(n))}

\* _select_node followed from node n: the subtrees n can become.  The
\* selection strategy may return any child.
RECURSIVE select_node(_)
select_node(n) ==
    IF get_winner(n.game_state) # None THEN {n}
    ELSE IF ~is_fully_expanded(n, n.game_state) THEN expand(n)
    ELSE IF n.children = <<>> THEN {n}
    ELSE UNION {{[n EXCEPT !.children[i] = t] : t \in select_node(n.children[i])} :
                  i \in {j \in DOMAIN n.children :
                           n.children[j].move \in Explore(ChildMoves(n))}}

RECURSIVE InOrder(_)
InOrder(S) ==
    IF S = {} THEN <<>>
    ELSE LET m == CHOOSE x \in S : TRUE IN <<m>> \o InOrder(S \ {m})

\* the root of a worker for game g once every legal move has been expanded
FullRoot(g) ==
    LET L == InOrder(get_legal_moves(g))
    IN [SearchNode(clone_game(g), NoMove) EXCEPT !.children =
          [i \in DOMAIN L |-> SearchNode(Execute(clone_game(g), L[i]), L[i])]]

\* the roots a worker starts from, and those it has once every legal move
\* of a position one goal short of a win has been expanded
TreeArgs ==
    [root : {SearchNode(clone_game(g), NoMove) :
               g \in {MastergoalGame(1)} \cup {NearWin(t) : t \in Teams}}
            \cup {FullRoot(NearWin("LEFT"))}]

SearchRoot == IF ret = <<>> THEN arg.root ELSE ret.root

SearchDone == IF ret = <<>> THEN 0 ELSE ret.done

\* one pass of the loop of _run_mcts_thread, up to the expansion
SearchIterate ==
    /\ op = "search" /\ SearchDone < MaxIter
    /\ \E t \in select_node(SearchRoot) :
          ret' = [root |-> t, done |-> SearchDone + 1]
    /\ UNCHANGED <<game, wvars, evars, op, arg>>

InitTree ==
    /\ game = MastergoalGame(1)
    /\ SessionIdle
    /\ EngineIdle
    /\ op = "search" /\ arg \in TreeArgs
    /\ ret = <<>>

NextTree == SearchIterate

SpecTree == InitTree /\ [][NextTree]_vars

(***************************************************************************)
(* get_best_move on a game in play whose last possession was RIGHT's       *)
(* (SpecFail): the coordinator and the workers of SpecPar.                 *)
(***************************************************************************)
\* the live game handed to the engine: RIGHT carries the ball and is to move
FailGames == {NearWin("RIGHT")}

InitFail ==
    /\ game \in FailGames
    /\ team \in Teams
    /\ cfg \in [level : {1}, use_opening_book : {FALSE},
                iterations : 0 .. MaxIter, num_threads : 1 .. MaxThreads,
                selection : {"uct_class"}]
    /\ cpc = "idle"
    /\ executor = None
    /\ wst = <<>> /\ wthr = <<>> /\ budget = <<>> /\ done = <<>> /\ tree = <<>>
    /\ results = <<>> /\ merged = <<>> /\ best = NoMove
    /\ hist = [o \in 0 .. MaxThreads |-> EmptyTable]
    /\ timedOut = FALSE /\ after = <<>>
    /\ zombies = <<>> /\ calls = 0 /\ cleaned = FALSE
    /\ SessionIdle
    /\ FunIdle

SpecFail == InitFail /\ [][NextPar]_vars

(***************************************************************************)
(* The tree of one worker with the visits of its nodes (SpecVisits).       *)
(***************************************************************************)
\* a node with its visit count
VisitNode(g, m, v) == [game_state |-> g, move |-> m, children |-> <<>>, visits |-> v]

\* a backpropagation that counts nothing
CountVisit_not(n) == n

\* current.visits += 1 in StandardBackpropagation.backpropagate
CountVisit(n) == [n EXCEPT !.visits = @ + 1]

\* one iteration of _run_mcts_thread from node n down: _select_node, then the
\* backpropagation along the chain of parents of the selected node.  The
\* result is the set of subtrees n can become; it is empty when select is
\* called on a node without children, which raises and ends the worker.
RECURSIVE search_iteration(_)
search_iteration(n) ==
    IF get_winner(n.game_state) # None THEN {CountVisit(n)}
    ELSE IF ~is_fully_expanded(n, n.game_state)
    THEN {[CountVisit(n) EXCEPT !.children =
              Append(@, CountVisit(VisitNode(Execute(clone_game(n.game_state), m), m, 0)))] :
            m \in Explore(Unexplored(n))}
    ELSE UNION {{[CountVisit(n) EXCEPT !.children[i] = t] :
                    t \in search_iteration(n.children[i])} :
                  i \in {j \in DOMAIN n.children :
                           n.children[j].move \in Explore(ChildMoves(n))}}

\* a descent that asks the selection strategy at every node that is not
\* terminal, fully expanded or not
RECURSIVE SelectCalls_unexpanded(_)
SelectCalls_unexpanded(n) ==
    IF get_winner(n.game_state) # None THEN {}
    ELSE {n} \cup UNION {SelectCalls_unexpanded(n.children[i]) : i \in DOMAIN n.children}

\* the nodes on which _select_node can call strategies['selection'].select in
\* a descent from n: the loop goes on while the node is not terminal, returns
\* from expand when the node is not fully expanded, and else calls select,
\* which returns one of the children
RECURSIVE SelectCalls(_)
SelectCalls(n) ==
    IF get_winner(n.game_state) # None THEN {}
    ELSE IF ~is_fully_expanded(n, n.game_state) THEN {}
    ELSE {n} \cup UNION {SelectCalls(n.children[i]) : i \in DOMAIN n.children}

\* the root of a worker for game g after one iteration for each legal move
VisitedRoot(g) ==
    LET L == InOrder(get_legal_moves(g))
    IN [VisitNode(clone_game(g), NoMove, Len(L)) EXCEPT !.children =
          [i \in DOMAIN L |-> VisitNode(Execute(clone_game(g), L[i]), L[i], 1)]]

\* the root a worker starts from, or has after `done` iterations
VisitArgs ==
    {[root |-> VisitNode(clone_game(g), NoMove, 0), done |-> 0] :
        g \in {MastergoalGame(1)} \cup {NearWin(t) : t \in Teams}}
    \cup {[root |-> VisitedRoot(NearWin("LEFT")),
           done |-> Cardinality(get_legal_moves(NearWin("LEFT")))]}

VisitRoot == IF ret = <<>> THEN arg.root ELSE ret.root

VisitDone == IF ret = <<>> THEN 0 ELSE ret.done

\* one pass of the loop of _run_mcts_thread
VisitIterate ==
    /\ op = "visits" /\ VisitDone < MaxIter
    /\ \E t \in search_iteration(VisitRoot) :
          ret' = [root |-> t, done |-> VisitDone + 1]
    /\ UNCHANGED <<game, wvars, evars, op, arg>>

InitVisits ==
    /\ game = MastergoalGame(1)
    /\ SessionIdle
    /\ EngineIdle
    /\ op = "visits" /\ arg \in VisitArgs
    /\ ret = <<>>

NextVisits == VisitIterate

SpecVisits == InitVisits /\ [][NextVisits]_vars

(***************************************************************************)
(* Properties of the session.                                              *)
(***************************************************************************)
\* C1: GameManager.execute_move called with a triple that is not a legal
\* move of the state reports failure and leaves every field of the game
\* state as it was.
C1_IllegalMoveRejected ==
    \A i \in DOMAIN execCall :
        ~execCall[i].legal =>
            /\ ~execCall[i].ok
            /\ execCall[i].post = execCall[i].pre

\* an illegal, well-formed triple was submitted after the board had changed
C1_Witness ==
    /\ execCall # <<>>
    /\ ~execCall[1].legal
    /\ ~execCall[1].ok
    /\ execCall[1].pre.turn_count >= 2
    /\ game = execCall[1].pre

\* C2: the game state passed to an agent's get_move is, on every field, the
\* same after the call as before it.
C2_AgentLeavesState ==
    \A i \in DOMAIN agentCall : agentCall[i].post = agentCall[i].pre

\* C3: when it is the agent's turn and the state has a legal move, the move
\* the agent returns is a legal move of that state (never None).
C3_AgentMoveLegal ==
    \A i \in DOMAIN agentCall :
        (/\ agentCall[i].pre.current_team = aiColor
         /\ get_legal_moves(agentCall[i].pre) # {})
            => agentCall[i].agent \in get_legal_moves(agentCall[i].pre)

\* C4: when the agent raised or returned None while the game has a legal
\* move, AIManager.get_ai_move hands back a legal move of the current state
\* and the recovery does not change the game state.
C4_FailureRecovered ==
    \A i \in DOMAIN agentCall :
        (/\ agentCall[i].agent \in {NoMove, Raised}
         /\ get_legal_moves(agentCall[i].post) # {})
            => agentCall[i].move \in get_legal_moves(agentCall[i].post)

(***************************************************************************)
(* Properties of the root-parallel engine.                                 *)
(***************************************************************************)
RECURSIVE SumSeq(_, _)
SumSeq(q, f) == IF q = <<>> THEN 0 ELSE q[1][f] + SumSeq(Tail(q), f)

\* the root children with move m among the given roots, in order
RECURSIVE ChildrenWith(_, _)
ChildrenWith(roots, m) ==
    IF roots = <<>> THEN <<>>
    ELSE SelectSeq(Head(roots).children, LAMBDA c : c.move = m)
         \o ChildrenWith(Tail(roots), m)

FoundMoves(roots) == UNION {ChildMoves(roots[i]) : i \in DOMAIN roots}

C6_NoWorkerAfterReturn ==
    (cpc = "returned") =>
        /\ executor = None
        /\ Running = {}
        /\ zombies = <<>>

\* C7: the merged root is built only after every worker task of the call has
\* finished; no worker runs during the merge and the final selection.
C7_MergeAfterWorkers ==
    (cpc = "merge") => \A w \in Tasks : wst[w] \notin {"queued", "running"}

\* C8: with Progressive History no (team, move) entry written by one worker
\* is read or written by another worker.
C8_OwnHistoryTable ==
    \A o \in DOMAIN hist :
        \A k \in DOMAIN hist[o] : Cardinality(hist[o][k].by) <= 1

\* C9: after cleanup() has returned the engine holds no active executor, no
\* worker thread it started is running and every history table is empty.
C9_CleanupLeavesNothing ==
    cleaned =>
        /\ executor = None
        /\ zombies = <<>>
        /\ \A o \in DOMAIN hist : hist[o] = EmptyTable

\* C10: on a timeout every worker that is still running stops after its
\* current iteration, and the coordinator selects a move from the trees that
\* are available.
C10_StopsAfterTimeout ==
    /\ \A w \in DOMAIN after : after[w] <= 1
    /\ (cpc = "returned" /\ timedOut /\ FoundMoves(results) # {}) => best \in FoundMoves(results)

(***************************************************************************)
(* Properties of snapshots and clones.                                     *)
(***************************************************************************)
\* C11: for every reachable state, the snapshot get_game_state() rebuilt
\* with restore_game_state is a game equal to the state on every field,
\* last_possession_team included.
C11_SnapshotRoundTrip ==
    restore_game_state(game, get_game_state(game)) = game

\* C12: the game clone_game returns equals the original on every field; after
\* any moves or kicks executed on the clone the original reads as it did, and
\* no ball, player, position or player-list object belongs to both games.
C12_CloneIndependent ==
    (op = "clone_game" /\ ret # <<>>) =>
        /\ ret.played = 0 =>
              Deref(ret.heap, ret.game) = Deref(arg.heap, arg.game)
        /\ Deref(ret.heap, arg.game) = Deref(arg.heap, arg.game)
        /\ Reach(ret.heap, ret.game) \cap Reach(ret.heap, arg.game) = {}

\* a clone of a game in play on which a kick moved the ball and a player moved
C12_Witness ==
    /\ op = "clone_game" /\ ret # <<>>
    /\ Deref(arg.heap, arg.game).turn_count > 0
    /\ ret.played = MaxPlay
    /\ Deref(ret.heap, ret.game).ball # Deref(arg.heap, arg.game).ball
    /\ \E i \in DOMAIN Deref(arg.heap, arg.game).players :
          Deref(ret.heap, ret.game).players[i].pos
              # Deref(arg.heap, arg.game).players[i].pos

(* Properties of the opening book. *)
BookOpeners(level) ==
    IF level \in {1, 2} THEN {<<"move", <<4, 5>>, <<6, 5>>>>}
    ELSE {<<"move", <<4, 3>>, <<6, 5>>>>, <<"move", <<4, 7>>, <<6, 5>>>>}

BookApplies ==
    /\ arg.use_opening_book
    /\ arg.game.turn_count = 0
    /\ arg.team = "LEFT"
    /\ arg.game.current_team = "LEFT"

\* C13: with the book enabled, at turn 0 with the engine playing LEFT and to
\* move, get_best_move returns the opener of the level (one of the two at
\* level 3), whatever the iteration budget, and that move is legal in the
\* opening state, which offers no kick; in every other call a returned move
\* needs a search of at least one iteration.
C13_OpeningBook ==
    (op = "get_best_move" /\ ret # <<>>) =>
        /\ BookApplies =>
              /\ ret.ret \in BookOpeners(arg.game.level)
              /\ ret.ret \in get_legal_moves(arg.game)
              /\ \A m \in get_legal_moves(arg.game) : m[1] # "kick"
        /\ (~BookApplies /\ ret.ret \notin {NoMove, Raised}) =>
              /\ arg.iterations >= 1
              /\ arg.game.current_team = arg.team

\* the book answered a level-3 engine with no iteration budget
C13_Witness ==
    /\ op = "get_best_move" /\ ret # <<>>
    /\ BookApplies
    /\ arg.game.level = 3 /\ arg.iterations = 0
    /\ ret.ret = <<"move", <<4, 7>>, <<6, 5>>>>

(* Properties of the final-move strategies. *)
Visited(n) == {i \in DOMAIN n.children : n.children[i].visits > 0}

\* C14: on a root with a visited child, robust-child returns a child of
\* maximal visits, max-child a visited child of maximal mean reward, and
\* robust-max the most visited child of a set of max(1, floor(n*p)) visited
\* children that no visited child outside the set beats on mean reward; for
\* A (50, 10) and B (40, 30) these are A, B and, with p = 0.5, B.
C14_FinalMoveSelectors ==
    (op = "select_move" /\ ret # <<>> /\ Visited(arg.root) # {}) =>
        LET c == arg.root.children
            V == Visited(arg.root)
        IN /\ arg.strategy = "RobustChild" =>
                \E i \in DOMAIN c : /\ ret.move = c[i].move
                                    /\ \A k \in DOMAIN c : c[k].visits <= c[i].visits
           /\ arg.strategy = "MaxChild" =>
                \E i \in V : /\ ret.move = c[i].move
                             /\ \A k \in V : ~MeanAbove(c[k], c[i])
           /\ arg.strategy = "RobustMaxChild" =>
                \E T \in SUBSET V :
                    /\ Cardinality(T) = Max2(1, (Cardinality(V) * arg.pct) \div 100)
                    /\ \A i \in T : \A k \in V \ T : ~MeanAbove(c[k], c[i])
                    /\ \E i \in T : /\ ret.move = c[i].move
                                    /\ \A k \in T : c[k].visits <= c[i].visits
           /\ arg.root = ExampleRoot =>
                ret.move = IF arg.strategy = "RobustChild"
                           THEN ChildMove(1)
                           ELSE IF arg.strategy = "MaxChild" \/ arg.pct = 50
                           THEN ChildMove(2)
                           ELSE ret.move

\* robust-max with p = 0.5 answered B on the example root
C14_Witness ==
    /\ op = "select_move" /\ ret # <<>>
    /\ arg.root = ExampleRoot
    /\ arg.strategy = "RobustMaxChild" /\ arg.pct = 50
    /\ ret.move = ChildMove(2)

\* C15: a move the decisive-move wrapper returns without consulting its
\* fallback is the kick of a root child that lands in the goal the side to
\* move attacks; and when no root child's move does so, the wrapper returns
\* what the fallback strategy returns.
C15_DecisiveScores ==
    (op = "decisive" /\ ret # <<>>) =>
        LET me == arg.game.current_team
            scoring == {m \in ChildMoves(arg.root) :
                          m[1] = "kick" /\ ScoresFor(me, m[3])}
        IN /\ ~ret.fallback => ret.move \in scoring
           /\ scoring = {} =>
                ret.move = select_move(arg.fallback, arg.root, arg.pct)

(* Properties of the playout. *)
\* C16: the reward of a finished playout is +1 exactly when the AI team won
\* it, -1 exactly when the other team won it, and 0 when it ended in a draw,
\* at a cap or without a legal move.
C16_PlayoutReward ==
    (op = "simulate" /\ ret # <<>> /\ ret.reward # <<>>) =>
        LET w == get_winner_capped(ret.game, arg.cap)
        IN /\ ret.reward = <<1>> <=> w = arg.AI_team
           /\ ret.reward = <<-1>> <=> w = Opp(arg.AI_team)
           /\ w \in {"DRAW", None} => ret.reward = <<0>>

(* Properties of backpropagation. *)
\* C17: in both engines one iteration adds 1 to visits and the reward to
\* total_reward on the nodes of the parent chain of the simulated node and
\* leaves every other node as it was; with a selection strategy that keeps a
\* history table, the table gets exactly one update, for the move of the
\* simulated node.
C17_BackpropChain ==
    (op = "backpropagate" /\ ret # <<>>) =>
        /\ \A q \in DOMAIN arg.tree :
              ret.tree[q] =
                  IF OnChain(q, arg.node)
                  THEN [visits |-> arg.tree[q].visits + 1,
                        total_reward |-> arg.tree[q].total_reward + arg.reward]
                  ELSE arg.tree[q]
        /\ (arg.selection = "ProgressiveHistorySelection" /\ arg.node # <<>>) =>
              /\ DOMAIN ret.table = {KeyOf(arg.node)}
              /\ ret.table[KeyOf(arg.node)].count = 1
              /\ ret.table[KeyOf(arg.node)].total = arg.reward

(* Properties of seeded runs. *)
\* C18: two runs with one worker thread, the same budget, the same starting
\* state and the same seed have made the same random choices after the same
\* number of iterations, and return the same move.
C18_SeededRunsAgree ==
    op = "seeded_runs" =>
        /\ ret[1].done = ret[2].done => ret[1].root = ret[2].root
        /\ (ret[1].out # <<>> /\ ret[2].out # <<>>) => ret[1].out = ret[2].out

(* Properties of the terminal check. *)
\* C19: with win_goals and an enabled max_turns supplied, check_game_status
\* reports the game ended exactly when a side has win_goals goals (that side
\* wins) or turn_count has reached max_turns (a draw); the game's own
\* thresholds end no game these overrides consider running.
C19_OverridesDecide ==
    (/\ op = "check_game_status" /\ ret # <<>>
     /\ arg.win_goals # {} /\ arg.max_turns_enabled /\ arg.max_turns # {}) =>
        LET w == CHOOSE x \in arg.win_goals : TRUE
            n == CHOOSE x \in arg.max_turns : TRUE
            g == arg.game
        IN ret = IF g.LEFT_goals >= w THEN [ended |-> TRUE, winner |-> "LEFT"]
                 ELSE IF g.RIGHT_goals >= w THEN [ended |-> TRUE, winner |-> "RIGHT"]
                 ELSE IF g.turn_count >= n THEN [ended |-> TRUE, winner |-> "DRAW"]
                 ELSE [ended |-> FALSE, winner |-> None]

(* Properties of invalid requests. *)
\* C20: a new-game request with a level outside 1..3, an unknown difficulty
\* or a colour other than LEFT and RIGHT is answered with an error and the
\* active games are what they were; a move request with a malformed position
\* is answered with a failure and the game and the move history of the
\* session are what they were.
C20_InvalidRequestNoEffect ==
    (op = "request" /\ ret # <<>>) =>
        /\ (/\ arg.kind = "new_game"
            /\ \/ arg.data.level \notin {1, 2, 3}
               \/ arg.data.difficulty \notin {"easy", "medium", "hard"}
               \/ arg.data.playerColor \notin {"LEFT", "RIGHT"}) =>
              ret.code >= 400 /\ ret.active = arg.active
        /\ (arg.kind = "make_move" /\ arg.req.shape = "malformed") =>
              /\ ret.code >= 400
              /\ ret.active[arg.id].game = arg.active[arg.id].game
              /\ ret.active[arg.id].move_history = arg.active[arg.id].move_history

\* an unknown difficulty was refused by a server that has a game in play
C20_Witness ==
    /\ op = "request" /\ ret # <<>>
    /\ arg.kind = "new_game"
    /\ arg.data.level = 1 /\ arg.data.playerColor = "LEFT"
    /\ arg.data.difficulty = "expert"
    /\ Len(arg.active) = 1 /\ arg.active[1].move_history # <<>>
    /\ ret.code = 400

(* Properties of the engine when the pool fails. *)
\* C21: when the worker pool cannot be started, get_best_move still searches
\* in the calling thread: it does not leave with an exception, and the game
\* is what it was.
C21_PoolFailureSearches ==
    cpc = "returned" => best # Raised

(* Properties of the basic heuristic agent. *)
\* the kinds of move the priority list names, among the legal moves of g
ScoringKicks(g, tm) ==
    {m \in get_legal_moves(g) :
        m[1] = "kick" /\ ScoresFor(tm, m[3]) /\ ~GoalkeeperAt(g, m[3])}

AdvancingKicks(g, tm) ==
    {m \in get_legal_moves(g) :
        m[1] = "kick" /\ IF tm = "LEFT" THEN m[3][1] > g.ball[1]
                         ELSE m[3][1] < g.ball[1]}

\* a kick landing adjacent to a teammate that is closer to the opponent's
\* goal than the current ball
SupportingPasses(g, tm) ==
    LET goalRow == IF tm = "LEFT" THEN ROWS - 1 ELSE 0
    IN {m \in get_legal_moves(g) :
          /\ m[1] = "kick"
          /\ \E i \in get_team_players(g, tm) :
                /\ g.players[i].pos # g.ball
                /\ is_adjacent(g.players[i].pos, m[3])
                /\ Abs(g.players[i].pos[1] - goalRow) < Abs(g.ball[1] - goalRow)}

ApproachingMoves(g) ==
    {m \in get_legal_moves(g) :
        m[1] = "move" /\ distance(m[3], g.ball) < distance(m[2], g.ball)}

DefensiveMoves(g, tm) ==
    find_defensive_moves(g, tm, {m \in get_legal_moves(g) : m[1] = "move"})

\* C22: the basic heuristic agent returns a goal-scoring kick whenever one is
\* legal; otherwise an advancing kick; otherwise, at level 2 and above, a
\* supporting pass; otherwise a move strictly closer to the ball; otherwise
\* a defensive move; otherwise some legal move.
C22_HeuristicPriority ==
    (op = "heuristic" /\ ret # <<>> /\ get_legal_moves(arg.game) # {}) =>
        LET g == arg.game
            tm == g.current_team
            m == ret.ret
        IN IF ScoringKicks(g, tm) # {} THEN m \in ScoringKicks(g, tm)
           ELSE IF AdvancingKicks(g, tm) # {} THEN m \in AdvancingKicks(g, tm)
           ELSE IF g.level >= 2 /\ SupportingPasses(g, tm) # {}
           THEN m \in SupportingPasses(g, tm)
           ELSE IF ApproachingMoves(g) # {} THEN m \in ApproachingMoves(g)
           ELSE IF DefensiveMoves(g, tm) # {} THEN m \in DefensiveMoves(g, tm)
           ELSE m \in get_legal_moves(g)

(* Properties of the rules. *)
\* the last move played was a kick onto a teammate of the kicker
PassPlayed ==
    /\ op = "play" /\ ret # <<>>
    /\ ret.move[1] = "kick"
    /\ IsPass(ret.pre, ret.move[3])

C24_PassCount ==
    (op = "play" /\ ret # <<>>) =>
        LET pre == ret.pre
            m == ret.move
            toOpp == \E i \in PlayersAt(pre, m[3]) :
                        pre.players[i].team = Opp(pre.current_team)
        IN /\ m[1] = "move" => game.passes_count = 0
           /\ (m[1] = "kick" /\ toOpp) => game.passes_count = 0
           /\ game.passes_count > pre.passes_count
                => /\ m[1] = "kick" /\ IsPass(pre, m[3])
                   /\ game.passes_count = pre.passes_count + 1

\* a pass was played and counted, and then a move of the other side was
\* played
C24_Witness ==
    /\ op = "play" /\ ret # <<>>
    /\ ret.move[1] = "move"
    /\ ret.pre.passes_count = 1
    /\ game.passes_count = 0

\* C25: a legal KICK into the opponent's goal, on a cell without a
\* goalkeeper, adds exactly 1 to the goals of the kicking team, leaves the
\* other count alone, puts every piece and the ball back on the opening
\* cells, gives the move to the conceding team and sets passes_count to 0.
C25_GoalResets ==
    (/\ op = "play" /\ ret # <<>>
     /\ ret.move[1] = "kick"
     /\ ScoresFor(ret.pre.current_team, ret.move[3])
     /\ ~GoalkeeperAt(ret.pre, ret.move[3])) =>
        LET pre == ret.pre
            me == pre.current_team
        IN /\ game.LEFT_goals = pre.LEFT_goals + (IF me = "LEFT" THEN 1 ELSE 0)
           /\ game.RIGHT_goals = pre.RIGHT_goals + (IF me = "RIGHT" THEN 1 ELSE 0)
           /\ game.players = MastergoalGame(pre.level).players
           /\ game.ball = CentreCell
           /\ game.current_team = Opp(me)
           /\ game.passes_count = 0

\* LEFT kicked (13,5) -> (14,5): 1 - 0, RIGHT to move
C25_Witness ==
    /\ op = "play" /\ ret # <<>>
    /\ ret.move = <<"kick", <<13, 5>>, <<14, 5>>>>
    /\ ret.pre.current_team = "LEFT"
    /\ game.LEFT_goals = 1 /\ game.RIGHT_goals = 0
    /\ game.current_team = "RIGHT"
    /\ game.ball = CentreCell

\* C28: a legal MOVE or KICK that neither scores nor earns an extra turn
\* (special tile, skip_next_turn) gives the move to the other team, a pass
\* to a teammate included, and turn_count grows; turn_count never decreases.
C28_TurnAlternates ==
    (op = "play" /\ ret # <<>>) =>
        LET pre == ret.pre
            m == ret.move
            scores == \/ game.LEFT_goals # pre.LEFT_goals
                      \/ game.RIGHT_goals # pre.RIGHT_goals
            extra == \/ pre.skip_next_turn
                     \/ m[1] = "kick"
                          /\ is_special_tile(pre, m[3], pre.current_team)
        IN /\ game.turn_count >= pre.turn_count
           /\ (~scores /\ ~extra)
                => /\ game.current_team = Opp(pre.current_team)
                   /\ game.turn_count > pre.turn_count

\* a pass to a teammate was played and the other side is to move
C28_Witness ==
    /\ PassPlayed
    /\ ~is_special_tile(ret.pre, ret.move[3], ret.pre.current_team)
    /\ game.current_team = Opp(ret.pre.current_team)
    /\ game.turn_count = ret.pre.turn_count + 1

(* Properties of the extra turn. *)
\* the call executed a kick that landed on a special tile of the kicking team
TileKick(c) ==
    /\ c.ok
    /\ c.post.ball # c.pre.ball
    /\ is_special_tile(c.pre, c.post.ball, c.pre.current_team)

\* C27: at level 3, after a team executes a KICK that lands on a special
\* tile for that team, current_team is still that team; and when the kick
\* was the human's, the request ends without an AI move: the handler is idle
\* and the last move recorded is the human's.
C27_ExtraTurn ==
    \A i \in DOMAIN execCall :
        TileKick(execCall[i]) =>
            /\ execCall[i].post.current_team = execCall[i].pre.current_team
            /\ execCall[i].pre.current_team = playerColor =>
                  /\ pc = "idle"
                  /\ history # <<>>
                  /\ history[Len(history)].player = playerColor

\* the human's kick landed on a special tile at level 3 and was executed
C27_Witness ==
    /\ execCall # <<>>
    /\ TileKick(execCall[1])
    /\ execCall[1].pre.level = 3
    /\ execCall[1].pre.current_team = playerColor
    /\ game = execCall[1].post
    /\ pc = "idle"

CappedPlayoutTerminates ==
    (arg.cap # {}) => <>(op = "simulate" /\ ret # <<>> /\ ret.reward # <<>>)

(* Properties of the search tree. *)
RECURSIVE TreeOK(_)
TreeOK(n) ==
    LET L == get_legal_moves(n.game_state)
        K == DOMAIN n.children
    IN /\ \A i, j \in K : i # j => n.children[i].move # n.children[j].move
       /\ \A i \in K : n.children[i].move \in L
       /\ \A i \in K :
            n.children[i].game_state = Execute(n.game_state, n.children[i].move)
       /\ Len(n.children) <= Cardinality(L)
       /\ is_fully_expanded(n, n.game_state) <=>
            (\A m \in L : Cardinality({i \in K : n.children[i].move = m}) = 1)
       /\ \A i \in K : TreeOK(n.children[i])

\* C30: in the tree of a worker, after any number of iterations, the
\* children of a node carry pairwise distinct moves, each a legal move of the
\* state of the node; the state of a child is that move executed on the state
\* of the node; a node has no more children than legal moves, and it is fully
\* expanded exactly when it has one child for each legal move.
C30_TreeInvariants ==
    (op = "search" /\ ret # <<>>) => TreeOK(ret.root)

\* iterations have descended below a fully expanded root and expanded a
\* child of it
C30_Witness ==
    /\ op = "search" /\ ret # <<>> /\ ret.done = MaxIter
    /\ is_fully_expanded(ret.root, ret.root.game_state)
    /\ \E i \in DOMAIN ret.root.children :
          ret.root.children[i].children # <<>>

(* Properties of the turn in a session against an AI. *)
\* C31: in a session against an AI a move request made while current_team is
\* not the colour of the human is refused, and the game, the move history
\* and the status of the session are what they were: a request is applied
\* only on the turn of the human.
C31_NotYourTurn ==
    (/\ op = "request" /\ ret # <<>> /\ arg.kind = "make_move"
     /\ arg.active[arg.id].mode = "pve"
     /\ arg.active[arg.id].game.current_team # arg.active[arg.id].player_color) =>
        /\ ret.code = 400
        /\ ret.active = arg.active

\* a legal move of the AI's piece, asked for by the human on the turn of the
\* AI in a game in play, was refused
C31_Witness ==
    /\ op = "request" /\ ret # <<>> /\ arg.kind = "make_move"
    /\ arg.active[arg.id].mode = "pve"
    /\ arg.active[arg.id].status = "active"
    /\ arg.active[arg.id].move_history # <<>>
    /\ arg.active[arg.id].game.current_team = arg.active[arg.id].ai_color
    /\ GM_execute_move(arg.active[arg.id].game, arg.req).ok
    /\ ret.code = 400

(* Properties of a completed session. *)
\* C32: once the status of a session is completed, no request, move request
\* or state fetch, applies a move to its game: the game and the move history
\* stay what they were.
C32_CompletedIsFinal ==
    [][status = "completed" => (game' = game /\ history' = history)]_vars

(* Properties of the AI loop of a request. *)
\* a round of the AI loop has appended a move to the history
AIApplied == pc = "ai" /\ history' # history

\* C33: the AI loop of a request starts with a limit of 10, every move it
\* applies takes one from the limit, and it always stops; without a move
\* applied (the turn is not the AI's, the limit is used up, the agent gave no
\* move, the execution failed) the loop is left, and it is left when the game
\* is reported ended; a move it applies is a legal move of the state it is
\* executed on and is appended to the move history as the last entry.
C33_AILoop ==
    /\ [](pc = "ai" => chain \in 0 .. 10)
    /\ [][/\ (pc = "idle" /\ pc' = "ai") => chain' = 10
          /\ (history' # history /\ history'[Len(history')].player = aiColor)
                => pc = "ai"
          /\ AIApplied =>
               /\ chain > 0 /\ chain' = chain - 1
               /\ game.current_team = aiColor
               /\ execCall' # <<>> /\ agentCall' # <<>>
               /\ LET m == history'[Len(history')].move
                      on == execCall'[1].pre
                  IN /\ on = agentCall'[1].post
                     /\ m \in get_legal_moves(on)
                     /\ game' = Execute(on, m)
                     /\ history' = Append(history, Payload(aiColor, m))
          /\ (pc = "ai" /\ history' = history) => pc' = "idle"
          /\ (pc = "ai" /\ pc' = "ai") => get_winner(game') = None
          /\ (pc = "ai" /\ (game.current_team # aiColor \/ chain = 0))
                => game' = game /\ history' = history]_vars
    /\ (pc = "ai") ~> (pc = "idle")

\* the AI has applied two moves in one request: a kick onto a special tile,
\* then another move
C33_Witness ==
    /\ chain = 8 /\ Len(history) >= 2
    /\ history[Len(history)].player = aiColor
    /\ history[Len(history) - 1].player = aiColor
    /\ history[Len(history) - 1].move[1] = "kick"

(* Properties of the split of the budget. *)
RECURSIVE SumTo(_, _)
SumTo(f, n) == IF n = 0 THEN 0 ELSE f[n] + SumTo(f, n - 1)

\* C34: for every budget N >= 0 and every number of threads T >= 1 the
\* budgets of the workers add up to N and differ by at most 1, and when
\* every worker has returned its root the visits of the merged root are N.
C34_BudgetSplit ==
    (op = "split" /\ ret # <<>>) =>
        /\ DOMAIN ret.budget = 1 .. arg.num_threads
        /\ SumTo(ret.budget, arg.num_threads) = arg.iterations
        /\ \A v, w \in DOMAIN ret.budget :
              /\ ret.budget[v] >= 0
              /\ ret.budget[v] - ret.budget[w] <= 1
        /\ ret.merged # <<>> => ret.merged[1].visits = arg.iterations

\* a budget that does not divide evenly was split, the workers ran and the
\* roots were merged
C34_Witness ==
    /\ op = "split" /\ ret # <<>> /\ ret.merged # <<>>
    /\ arg.num_threads > 1
    /\ arg.iterations % arg.num_threads # 0
    /\ arg.iterations > arg.num_threads
    /\ \E w \in DOMAIN ret.results : ret.results[w].visits # ret.results[1].visits

(* Properties of the visit counts of a worker tree. *)
RECURSIVE SumVisits(_)
SumVisits(kids) ==
    IF kids = <<>> THEN 0 ELSE Head(kids).visits + SumVisits(Tail(kids))

\* below the root: a node has been visited, and one that is not terminal has
\* one visit more than its children together
RECURSIVE BelowOK(_)
BelowOK(n) ==
    /\ n.visits >= 1
    /\ get_winner(n.game_state) = None => n.visits = 1 + SumVisits(n.children)
    /\ \A i \in DOMAIN n.children : BelowOK(n.children[i])

\* C35: in the tree of a worker, after every completed iteration, the visits
\* of the root are the number of completed iterations and, the root not
\* being terminal, the sum of the visits of its children; every other node
\* that is not terminal has 1 visit more than its children together; every
\* node but a root before the first iteration has at least 1 visit.
C35_VisitCounts ==
    (op = "visits" /\ ret # <<>>) =>
        /\ ret.root.visits = arg.done + ret.done
        /\ ret.root.visits >= 1
        /\ get_winner(ret.root.game_state) = None =>
              ret.root.visits = SumVisits(ret.root.children)
        /\ \A i \in DOMAIN ret.root.children : BelowOK(ret.root.children[i])

\* the iterations went twice through a child of a fully expanded root: the
\* child has a child of its own, or is terminal
C35_Witness ==
    /\ op = "visits" /\ ret # <<>> /\ ret.done = MaxIter
    /\ is_fully_expanded(ret.root, ret.root.game_state)
    /\ \E i \in DOMAIN ret.root.children :
          /\ ret.root.children[i].visits >= 2
          /\ ret.root.children[i].children # <<>>
    /\ \E i \in DOMAIN ret.root.children :
          get_winner(ret.root.children[i].game_state) # None

\* C36: whenever select(node) is called during the search, node has a child,
\* node has at least 1 visit and every child of node has at least 1 visit, so
\* that the term sqrt(ln(N_parent) / N) is taken with N >= 1 and N_parent >= 1
\* and select returns a child.
C36_SelectPreconditions ==
    op = "visits" =>
        \A n \in SelectCalls(VisitRoot) :
            /\ n.children # <<>>
            /\ n.visits >= 1
            /\ \A i \in DOMAIN n.children : n.children[i].visits >= 1

\* select was called on a fully expanded root and the child it returned was
\* visited again
C36_Witness ==
    /\ op = "visits" /\ ret # <<>> /\ ret.done >= 1
    /\ arg.root \in SelectCalls(arg.root)
    /\ ret.root \in SelectCalls(ret.root)
    /\ \E i \in DOMAIN ret.root.children : ret.root.children[i].visits >= 2

\* a task that raised is taken from as_completed without a root, a task that
\* returned adds its root; the merge is that of the collected roots, and
\* without a root the call returns None
FailedDiscarded ==
    /\ \A w \in DOMAIN wst :
          (w \in DOMAIN wst' /\ wst'[w] = "taken" /\ wst[w] # "taken") =>
              results' = IF wst[w] = "failed" THEN results
                         ELSE Append(results, tree[w])
    /\ (cpc = "merge" /\ cpc' = "returned") =>
          /\ merged' = merge_trees(results)
          /\ results = <<>> => best' = NoMove

FailedWorkersDiscarded == [][FailedDiscarded]_vars

\* every task of the call was taken from as_completed and not every one
\* brought a root: a worker raised
SomeFailed == ~timedOut /\ Len(results) < Len(wst)

\* C37: a worker whose search raises adds nothing to the merge and the trees
\* of the other workers are merged as usual; when every worker fails
\* get_best_move returns None; in these cases the live game after the call
\* is the game before it.
C37_FailedWorkers ==
    [][/\ FailedDiscarded
       /\ cpc \in {"submit", "collect"} => game' = game
       /\ (cpc = "merge" /\ SomeFailed) => game' = game]_vars

====
